---- MODULE Spec2Model ----
(***************************************************************************)
(* Model of the durable (Redis/BullMQ backed) queue manager of             *)
(* packages/server/api/src/app/workers/flow-worker/queues/redis/           *)
(* redis-queue.ts: add, removeRepeatingJob, findRepeatableJobKey and the   *)
(* schema migration pass run by init.                                      *)
(*                                                                         *)
(* JavaScript objects are records; a property that is undefined is a field *)
(* that is absent from the record.  Strings that may be null/undefined use *)
(* the value Nil.                                                          *)
(***************************************************************************)
EXTENDS Integers, Sequences, FiniteSets, TLC

Nil == "nil"

\* ------------------------------------------------------------------------
\* Bounds of the model
\* ------------------------------------------------------------------------
\* largest number of jobs held by the scheduled queue
MaxScheduled == 2
\* largest number of jobs on the scheduled queue when a migration pass starts
MaxLegacy == 2
\* largest number of init() calls of one process
MaxPasses == 2
\* largest number of stored jobs in the runs with rejected calls checked for
\* progress, with several processes, and with processes that end mid-pass
MaxFairLegacy == 1

\* worker processes that run init()
Procs == {"w1", "w2"}
\* the process of the runs in which one process starts alone
Single == {"w1"}

\* ids used for REPEATING jobs and as flowVersionId of payloads
Ids == {"a", "b"}
\* ids used for ONE_TIME and DELAYED jobs (flow run ids)
RunIds == {"r1"}
Patterns == {"*/5 * * * *", "0 0 * * *"}
Timezones == {"UTC"}
Delays == {5000}
\* flowVersionId carried by the payload of DELAYED jobs
DelayedFlowVersions == {"a"}
Priorities == {"high", "medium", Nil}

\* ------------------------------------------------------------------------
\* Program constants and helpers
\* ------------------------------------------------------------------------
ONE_TIME_JOB_QUEUE == "oneTimeJobs"
SCHEDULED_JOB_QUEUE == "repeatableJobs"

repeatingJobKey(id) == "activepieces:repeatJobKey:" \o id

Has(obj, field) == field \in DOMAIN obj

\* obj with obj[field] = value, and obj with the property field deleted
With(obj, field, value) ==
    [f \in DOMAIN obj \cup {field} |-> IF f = field THEN value ELSE obj[f]]

Without(obj, field) == [f \in DOMAIN obj \ {field} |-> obj[f]]

\* isNil(x) for values that are either a string or Nil
isNil(x) == x = Nil

\* mutant of BrokerPriority: every job gets the low priority
BrokerPriorityIgnored(priority) == 2

\* mutant of BrokerPriority: the two priorities exchanged
BrokerPriorityExchanged(priority) == IF priority = "high" THEN 2 ELSE 1

\* priority: params.priority === 'high' ? 1 : 2
BrokerPriority(priority) == IF priority = "high" THEN 1 ELSE 2

\* mutant of DelayedOpts: the delay is passed on in seconds
DelayedOptsInSeconds(params) == [jobId |-> params.id, delay |-> params.delay \div 1000]

\* mutant of DelayedOpts: the delay is not passed on
DelayedOptsWithoutDelay(params) == [jobId |-> params.id, delay |-> 0]

\* options of the enqueue of a DELAYED job
DelayedOpts(params) == [jobId |-> params.id, delay |-> params.delay]

\* options of the enqueue of a REPEATING job
RepeatingOpts(params) ==
    [jobId |-> params.id,
     repeat |-> [pattern |-> params.scheduleOptions.cronExpression,
                 tz |-> params.scheduleOptions.timezone]]

\* new ActivepiecesError({ code: ErrorCode.JOB_REMOVAL_FAILURE, params: { jobId: id } })
JobRemovalFailure(id) == [code |-> "JOB_REMOVAL_FAILURE", params |-> [jobId |-> id]]

\* new Error(`Couldn't find job key for id "${id}"`)
KeyNotFound(id) == "Couldn't find job key for id \"" \o id \o "\""

\* ------------------------------------------------------------------------
\* State
\* ------------------------------------------------------------------------
VARIABLES
    oneTimeJobQueue,     \* jobs of the immediate queue, in arrival order
    scheduledJobQueue,   \* jobs of the scheduled queue, in the order getJobs() lists them
    repeatable,          \* the broker's repeatable set of the scheduled queue
    store,               \* side key-value store (redis client get/set/del)
    last,                \* the last completed call: its parameters, the requests
                         \* it sent to the broker and the store, and its outcome
    flows,               \* external persistence: the flow records, by flow id
    lock,                \* holder of the distributed lock 'jobs_lock' (Nil: free)
    mig,                 \* per worker process: where its init() stands, and the
                         \* locals of its migration pass
    origin,              \* the scheduled queue and the flow records as they were
                         \* before any process started
    work,                \* the broker's clock and its record of every job a
                         \* worker may take: when it was added, what was asked
                         \* for, its state and its attempts
    facade,              \* flow-queue.ts: the configured queue mode, the backend
                         \* bound to flowQueue, and where the calls went
    hooks,               \* the flow runs the worker hook sees, and the outcome of
                         \* the last preExecute
    inflight             \* an add and a removeRepeatingJob that run at the same
                         \* time: the awaited request each is at, and its locals

vars == <<oneTimeJobQueue, scheduledJobQueue, repeatable, store, last, flows, lock, mig,
          origin, work, facade, hooks, inflight>>

\* the state only init() and the migration pass touch
migVars == <<flows, lock, mig, origin>>

\* the state neither the queue operations nor the migration pass touch
rest == <<work, facade, hooks, inflight>>

StoreKeys == {repeatingJobKey(id) : id \in Ids \cup RunIds}

\* ------------------------------------------------------------------------
\* The broker (bullmq Queue) as the code uses it
\* ------------------------------------------------------------------------
\* key under which the broker registers a repeat schedule
RepeatKey(name, jobId, tz, pattern) ==
    name \o ":" \o jobId \o "::" \o tz \o ":" \o pattern

HasJob(queue, jobId) == \E i \in 1..Len(queue) : queue[i].id = jobId

InsertAt(queue, pos, job) ==
    SubSeq(queue, 1, pos - 1) \o <<job>> \o SubSeq(queue, pos, Len(queue))

\* places at which getJobs() may list a job that was just added: before or
\* after the jobs already listed
Positions(queue) == {1, Len(queue) + 1}

\* Queue.add without repeat options: a job whose jobId is already present is
\* not added a second time
QueueAdd(queue, pos, name, data, opts) ==
    IF HasJob(queue, opts.jobId)
    THEN queue
    ELSE InsertAt(queue, pos, [id |-> opts.jobId, name |-> name, data |-> data, opts |-> opts])

\* job.repeatJobKey of a listed job (undefined for a job that is no repeat instance)
RepeatJobKeyOf(job) == IF Has(job, "repeatJobKey") THEN job.repeatJobKey ELSE Nil

RepeatableKeys == {r.key : r \in repeatable}

\* Queue.add with repeat options: registers the schedule under its key and
\* creates the next delayed instance of it; the same key registers nothing new
RepeatInstance(name, data, opts, key) ==
    [id |-> "repeat:" \o key, name |-> name, data |-> data,
     opts |-> opts, repeatJobKey |-> key]

QueueAddRepeat(queue, pos, name, data, opts, key) ==
    IF key \in RepeatableKeys
    THEN queue
    ELSE InsertAt(queue, pos, RepeatInstance(name, data, opts, key))

RegisterRepeat(name, opts, key) ==
    IF key \in RepeatableKeys
    THEN repeatable
    ELSE repeatable \cup {[key |-> key, name |-> name,
                           pattern |-> opts.repeat.pattern, tz |-> opts.repeat.tz]}

\* Queue.removeRepeatableByKey: drops the schedule and its pending instance
RemoveInstances(queue, key) ==
    LET Keep(job) == RepeatJobKeyOf(job) # key
    IN  SelectSeq(queue, Keep)

\* ------------------------------------------------------------------------
\* Parameters of add
\* ------------------------------------------------------------------------
ScheduledData(fv, jobType) ==
    [schemaVersion |-> 4, flowVersionId |-> fv, jobType |-> jobType]

OneTimeParams ==
    {[type |-> "ONE_TIME", id |-> id, data |-> [runId |-> id], priority |-> p] :
        id \in RunIds, p \in Priorities}

DelayedParams ==
    {[type |-> "DELAYED", id |-> x[1], data |-> ScheduledData(x[2], "DELAYED_FLOW"),
      delay |-> x[3]] : x \in RunIds \X DelayedFlowVersions \X Delays}

RepeatingParams ==
    {[type |-> "REPEATING", id |-> x[1], data |-> ScheduledData(x[2], "EXECUTE_TRIGGER"),
      scheduleOptions |-> [cronExpression |-> x[3], timezone |-> x[4]]] :
        x \in Ids \X Ids \X Patterns \X Timezones}

\* REPEATING parameters whose payload names the same flow version as the id
KeyedRepeatingParams == {p \in RepeatingParams : p.data.flowVersionId = p.id}

\* record of a completed call: the requests it made, in order, the error it
\* threw (none: the call returned) and what it gave to exceptionHandler.handle
Done(op, params, calls, error, reported) ==
    [op |-> op, params |-> params, calls |-> calls, error |-> error,
     reported |-> reported,
     \* a removeRepeatingJob that directly follows an add(REPEATING) of its id
     follows |-> /\ op = "removeRepeatingJob"
                 /\ last.op = "add"
                 /\ last.params.type = "REPEATING"
                 /\ last.params.id = params.id]

\* ------------------------------------------------------------------------
\* redisQueueManager.add
\* ------------------------------------------------------------------------
\* mutant of MappingAfterAdd: the key is written for every id
MappingAfterAddEveryId(id, repeatJobKey) ==
    IF isNil(repeatJobKey) THEN store ELSE [k \in StoreKeys |-> repeatJobKey]

\* mutant of MappingAfterAdd: the mapping is written without the isNil test
MappingAfterAddUnguarded(id, repeatJobKey) ==
    [store EXCEPT ![repeatingJobKey(id)] = repeatJobKey]

\* the side store after the enqueue of a REPEATING job returned repeatJobKey
MappingAfterAdd(id, repeatJobKey) ==
    IF isNil(repeatJobKey)
    THEN store
    ELSE [store EXCEPT ![repeatingJobKey(id)] = repeatJobKey]

AddRepeating(params, pos, returnsKey) ==
    LET id   == params.id
        opts == RepeatingOpts(params)
        key  == RepeatKey(id, opts.jobId, opts.repeat.tz, opts.repeat.pattern)
        \* job.repeatJobKey of the job the broker returns
        repeatJobKey == IF returnsKey THEN key ELSE Nil
        enqueue == [cmd |-> "add", queue |-> SCHEDULED_JOB_QUEUE, name |-> id,
                    data |-> params.data, opts |-> opts, reply |-> repeatJobKey]
        set == [cmd |-> "set", key |-> repeatingJobKey(id), value |-> repeatJobKey]
    IN  /\ params.type = "REPEATING"
        /\ key \in RepeatableKeys \/ Len(scheduledJobQueue) < MaxScheduled
        /\ scheduledJobQueue' = QueueAddRepeat(scheduledJobQueue, pos, id, params.data, opts, key)
        /\ repeatable' = RegisterRepeat(id, opts, key)
        /\ store' = MappingAfterAdd(id, repeatJobKey)
        /\ last' = Done("add", params,
                        IF isNil(repeatJobKey) THEN <<enqueue>> ELSE <<enqueue, set>>,
                        {}, {})
        /\ UNCHANGED <<origin, oneTimeJobQueue, migVars>>

AddDelayed(params, pos) ==
    LET id   == params.id
        opts == DelayedOpts(params)
    IN  /\ params.type = "DELAYED"
        /\ HasJob(scheduledJobQueue, opts.jobId) \/ Len(scheduledJobQueue) < MaxScheduled
        /\ scheduledJobQueue' = QueueAdd(scheduledJobQueue, pos, id, params.data, opts)
        /\ last' = Done("add", params,
                        <<[cmd |-> "add", queue |-> SCHEDULED_JOB_QUEUE, name |-> id,
                           data |-> params.data, opts |-> opts]>>, {}, {})
        /\ UNCHANGED <<origin, oneTimeJobQueue, repeatable, store, migVars>>

AddOneTime(params) ==
    LET id   == params.id
        opts == [jobId |-> id, priority |-> BrokerPriority(params.priority)]
    IN  /\ params.type \notin {"REPEATING", "DELAYED"}
        /\ oneTimeJobQueue' = QueueAdd(oneTimeJobQueue, Len(oneTimeJobQueue) + 1,
                                       id, params.data, opts)
        /\ last' = Done("add", params,
                        <<[cmd |-> "add", queue |-> ONE_TIME_JOB_QUEUE, name |-> id,
                           data |-> params.data, opts |-> opts]>>, {}, {})
        /\ UNCHANGED <<scheduledJobQueue, repeatable, store, migVars>>

\* handles: whether the broker may return the job with (TRUE) or without
\* (FALSE) its repeatJobKey
add(params, handles) ==
    \/ \E pos \in Positions(scheduledJobQueue), returnsKey \in handles :
            AddRepeating(params, pos, returnsKey)
    \/ \E pos \in Positions(scheduledJobQueue) : AddDelayed(params, pos)
    \/ AddOneTime(params)

\* ------------------------------------------------------------------------
\* findRepeatableJobKey and redisQueueManager.removeRepeatingJob
\* ------------------------------------------------------------------------
\* mutant of ScanForKey: the first listed job is taken, whatever its payload
ScanForKeyFirstJob(jobs, id) ==
    IF jobs = <<>> THEN Nil ELSE RepeatJobKeyOf(jobs[1])

\* mutant of ScanForKey: the job is matched by its name
ScanForKeyByName(jobs, id) ==
    LET WithData(job) == Has(job, "data")
        Match(job) == job.name = id
        matches == SelectSeq(SelectSeq(jobs, WithData), Match)
    IN  IF matches = <<>> THEN Nil ELSE RepeatJobKeyOf(matches[1])

\* jobs.filter(f => !isNil(f) && !isNil(f.data)).find(f => f.data.flowVersionId === id)?.repeatJobKey
ScanForKey(jobs, id) ==
    LET WithData(job) == Has(job, "data")
        Match(job) == Has(job.data, "flowVersionId") /\ job.data.flowVersionId = id
        matches == SelectSeq(SelectSeq(jobs, WithData), Match)
    IN  IF matches = <<>> THEN Nil ELSE RepeatJobKeyOf(matches[1])

\* mutant of findRepeatableJobKey: the queue is listed first and the side
\* mapping is read only when the scan finds nothing
findRepeatableJobKeyScanFirst(id) ==
    LET scanned == ScanForKey(scheduledJobQueue, id)
        jobKey  == store[repeatingJobKey(id)]
        getJobs == [cmd |-> "getJobs", queue |-> SCHEDULED_JOB_QUEUE]
        get     == [cmd |-> "get", key |-> repeatingJobKey(id), reply |-> jobKey]
    IN  IF isNil(scanned)
        THEN [jobKey |-> jobKey, calls |-> <<getJobs, get>>]
        ELSE [jobKey |-> scanned, calls |-> <<getJobs>>]

\* the key found for id and the requests made to find it
findRepeatableJobKey(id) ==
    LET jobKey == store[repeatingJobKey(id)]
        get    == [cmd |-> "get", key |-> repeatingJobKey(id), reply |-> jobKey]
    IN  IF isNil(jobKey)
        THEN [jobKey |-> ScanForKey(scheduledJobQueue, id),
              calls  |-> <<get, [cmd |-> "getJobs", queue |-> SCHEDULED_JOB_QUEUE]>>]
        ELSE [jobKey |-> jobKey, calls |-> <<get>>]

\* mutant of RemovalError: the test of the broker's answer is inverted
RemovalErrorInverted(id, result) == IF result THEN {JobRemovalFailure(id)} ELSE {}

\* what removeRepeatingJob throws after the broker answered result
RemovalError(id, result) == IF ~result THEN {JobRemovalFailure(id)} ELSE {}

\* mutant of removeRepeatingJob: the broker's answer is tested before the
\* mapping is deleted
removeRepeatingJobThrowsFirst(id) ==
    LET found  == findRepeatableJobKey(id)
        jobKey == found.jobKey
        result == jobKey \in RepeatableKeys
        removal == [cmd |-> "removeRepeatableByKey", queue |-> SCHEDULED_JOB_QUEUE,
                    key |-> jobKey, reply |-> result]
        del == [cmd |-> "del", key |-> repeatingJobKey(id)]
    IN  IF isNil(jobKey)
        THEN /\ last' = Done("removeRepeatingJob", [id |-> id], found.calls,
                             {}, {KeyNotFound(id)})
             /\ UNCHANGED <<origin, oneTimeJobQueue, scheduledJobQueue, repeatable, store, migVars>>
        ELSE /\ repeatable' = {r \in repeatable : r.key # jobKey}
             /\ scheduledJobQueue' = RemoveInstances(scheduledJobQueue, jobKey)
             /\ store' = IF result THEN [store EXCEPT ![repeatingJobKey(id)] = Nil] ELSE store
             /\ last' = Done("removeRepeatingJob", [id |-> id],
                             found.calls \o (IF result THEN <<removal, del>> ELSE <<removal>>),
                             RemovalError(id, result), {})
             /\ UNCHANGED <<origin, oneTimeJobQueue, migVars>>

removeRepeatingJob(id) ==
    LET found  == findRepeatableJobKey(id)
        jobKey == found.jobKey
        result == jobKey \in RepeatableKeys
        calls  == found.calls \o
                  <<[cmd |-> "removeRepeatableByKey", queue |-> SCHEDULED_JOB_QUEUE,
                     key |-> jobKey, reply |-> result],
                    [cmd |-> "del", key |-> repeatingJobKey(id)]>>
    IN  IF isNil(jobKey)
        THEN /\ last' = Done("removeRepeatingJob", [id |-> id], found.calls,
                             {}, {KeyNotFound(id)})
             /\ UNCHANGED <<origin, oneTimeJobQueue, scheduledJobQueue, repeatable, store, migVars>>
        ELSE /\ repeatable' = {r \in repeatable : r.key # jobKey}
             /\ scheduledJobQueue' = RemoveInstances(scheduledJobQueue, jobKey)
             /\ store' = [store EXCEPT ![repeatingJobKey(id)] = Nil]
             /\ last' = Done("removeRepeatingJob", [id |-> id], calls,
                             RemovalError(id, result), {})
             /\ UNCHANGED <<origin, oneTimeJobQueue, migVars>>

\* the side mapping of id disappears without a call of the queue manager
\* (expiry, eviction or a manual delete in the store)
DeleteMappingOutOfBand(id) ==
    /\ store[repeatingJobKey(id)] # Nil
    /\ store' = [store EXCEPT ![repeatingJobKey(id)] = Nil]
    /\ last' = Done("outOfBandDelete", [id |-> id], <<>>, {}, {})
    /\ UNCHANGED <<origin, oneTimeJobQueue, scheduledJobQueue, repeatable, migVars>>

\* ------------------------------------------------------------------------
\* Specifications of the queue operations: init() has run, no job is queued
\* ------------------------------------------------------------------------
\* no call of add or removeRepeatingJob has completed yet
NoCall ==
    [op |-> "init", params |-> [id |-> Nil], calls |-> <<>>, error |-> {},
     reported |-> {}, follows |-> FALSE]

\* a worker process outside a migration pass
Idle ==
    [pc |-> "idle", scheduledJobs |-> <<>>, jobsToMigrate |-> <<>>,
     modifiedJobData |-> <<>>, flow |-> Nil, migratedJobs |-> 0, passes |-> 0,
     error |-> Nil, released |-> 0]

\* neither call has been made
NoneInFlight ==
    [add |-> [pc |-> "idle", params |-> [id |-> Nil], repeatJobKey |-> Nil],
     remove |-> [pc |-> "idle", id |-> Nil, jobKey |-> Nil, error |-> {}, reported |-> {}]]

\* the broker at time 0, with no job a worker may take
NoWork == [now |-> 0, meta |-> <<>>]

\* no call has gone through the facade
NoFacadeCall == [op |-> "none", backend |-> Nil]

\* a process that was started in queue mode REDIS and whose flowQueue is the
\* durable backend
DurableFacade ==
    [queueMode |-> "REDIS", loaded |-> "REDIS", backend |-> "redisQueueManager",
     call |-> NoFacadeCall, calls |-> 0]

\* no flow run is known to the worker hook, preExecute was never called
NoHook == [runs |-> <<>>, last |-> [op |-> "none"], handled |-> {}]

\* ------------------------------------------------------------------------
\* Init and the three specifications
\* ------------------------------------------------------------------------
Init ==
    /\ work = NoWork
    /\ facade = DurableFacade
    /\ hooks = NoHook
    /\ inflight = NoneInFlight
    /\ oneTimeJobQueue = <<>>
    /\ scheduledJobQueue = <<>>
    /\ repeatable = {}
    /\ store = [k \in StoreKeys |-> Nil]
    /\ last = NoCall
    /\ flows = <<>>
    /\ lock = Nil
    /\ mig = [p \in Procs |-> [Idle EXCEPT !.pc = "done"]]
    /\ origin = [queue |-> scheduledJobQueue, flows |-> flows]

Add == \E params \in OneTimeParams \cup DelayedParams \cup RepeatingParams :
            add(params, BOOLEAN) /\ UNCHANGED rest

Remove == \E id \in Ids : removeRepeatingJob(id) /\ UNCHANGED rest

Next == Add \/ Remove

Spec == Init /\ [][Next]_vars

\* the same calls when every payload of a REPEATING job names the job's id and
\* the broker always returns the repeat key
AddKeyed == \E params \in OneTimeParams \cup DelayedParams \cup KeyedRepeatingParams :
                add(params, {TRUE}) /\ UNCHANGED rest

NextKeyed == AddKeyed \/ Remove

SpecKeyed == Init /\ [][NextKeyed]_vars

\* the same calls again, and side mappings that disappear out-of-band
OutOfBand == \E id \in Ids : DeleteMappingOutOfBand(id) /\ UNCHANGED rest

NextOutOfBand == AddKeyed \/ Remove \/ OutOfBand

SpecOutOfBand == Init /\ [][NextOutOfBand]_vars

\* ------------------------------------------------------------------------
\* Job payloads of the schema versions 1 to 4
\* ------------------------------------------------------------------------
LATEST_JOB_DATA_SCHEMA_VERSION == 4

FlowIdOf(fv) == "flow-" \o fv

\* version 1: the flow version is embedded; schemaVersion is missing or 1
PayloadsV1(fv) ==
    LET v1 == [flowVersion |-> [id |-> fv, flowId |-> FlowIdOf(fv)],
               projectId |-> "p1", triggerType |-> "SCHEDULE"]
    IN  {v1, With(v1, "schemaVersion", 1)}

\* versions 2 and 3
PayloadsV2V3(fv) ==
    {[schemaVersion |-> v, flowVersionId |-> fv, flowId |-> FlowIdOf(fv),
      projectId |-> "p1", environment |-> "PRODUCTION", executionType |-> et,
      triggerType |-> "SCHEDULE"] : v \in {2, 3}, et \in {"BEGIN", "RESUME"}}

Payloads(fv) ==
    PayloadsV1(fv) \cup PayloadsV2V3(fv) \cup {ScheduledData(fv, "EXECUTE_TRIGGER")}

\* repeat options as the broker stored them: complete, or without the cron
\* pattern, or without the timezone
StoredRepeatOpts ==
    {[pattern |-> "*/5 * * * *", tz |-> "UTC"], [tz |-> "UTC"], [pattern |-> "*/5 * * * *"]}

\* jobs a scheduled queue may hold when a process starts
StoredRepeatJobs ==
    UNION {{RepeatInstance(fv, data, [jobId |-> fv, repeat |-> repeat],
                           RepeatKey(fv, fv, "UTC", "*/5 * * * *")) :
                data \in Payloads(fv), repeat \in StoredRepeatOpts} : fv \in Ids}

StoredDelayedJobs ==
    {[id |-> id, name |-> id, data |-> d, opts |-> [jobId |-> id, delay |-> 5000]] :
        id \in RunIds,
        d \in {p \in UNION {PayloadsV2V3(fv) : fv \in DelayedFlowVersions} :
                    p.executionType = "RESUME"}}

\* a job whose record holds no data
StoredJobsWithoutData == {[id |-> "r0", name |-> "r0", opts |-> [jobId |-> "r0"]]}

StoredJobs == StoredRepeatJobs \cup StoredDelayedJobs \cup StoredJobsWithoutData

\* ------------------------------------------------------------------------
\* migrateScheduledJobs, one awaited operation at a time
\* ------------------------------------------------------------------------
jobDataSchemaVersionIsNotLatest(job) ==
    /\ Has(job, "data")
    /\ \/ ~Has(job.data, "schemaVersion")
       \/ job.data.schemaVersion # LATEST_JOB_DATA_SCHEMA_VERSION

\* JSON.parse(JSON.stringify(data)): a copy without the undefined properties,
\* which records do not have
JsonClone(data) == [f \in DOMAIN data |-> data[f]]

\* mutant of MigrateV1toV2: the embedded flow version is kept
MigrateV1toV2KeepsFlowVersion(data) ==
    [schemaVersion |-> 2,
     flowVersion |-> data.flowVersion,
     flowVersionId |-> data.flowVersion.id,
     flowId |-> data.flowVersion.flowId,
     projectId |-> data.projectId,
     environment |-> "PRODUCTION",
     executionType |-> "BEGIN",
     triggerType |-> data.triggerType]

\* mutant of MigrateV1toV2: the execution type of a resumed run
MigrateV1toV2AsResume(data) ==
    [schemaVersion |-> 2,
     flowVersionId |-> data.flowVersion.id,
     flowId |-> data.flowVersion.flowId,
     projectId |-> data.projectId,
     environment |-> "PRODUCTION",
     executionType |-> "RESUME",
     triggerType |-> data.triggerType]

MigrateV1toV2(data) ==
    [schemaVersion |-> 2,
     flowVersionId |-> data.flowVersion.id,
     flowId |-> data.flowVersion.flowId,
     projectId |-> data.projectId,
     environment |-> "PRODUCTION",
     executionType |-> "BEGIN",
     triggerType |-> data.triggerType]

\* mutant of CronSchedule: pattern and timezone exchanged
CronScheduleExchanged(repeat) ==
    [type |-> "CRON_EXPRESSION", timezone |-> repeat.pattern, cronExpression |-> repeat.tz]

\* the schedule written to the flow record
CronSchedule(repeat) ==
    [type |-> "CRON_EXPRESSION", timezone |-> repeat.tz, cronExpression |-> repeat.pattern]

\* mutant of IsRepeatable: an interval is asked for as well
IsRepeatableEvery(job) ==
    /\ Has(job.opts, "repeat")
    /\ Has(job.opts.repeat, "tz")
    /\ Has(job.opts.repeat, "pattern")
    /\ Has(job.opts.repeat, "every")

\* job.opts.repeat?.tz and job.opts.repeat?.pattern are both there
IsRepeatable(job) ==
    /\ Has(job.opts, "repeat")
    /\ Has(job.opts.repeat, "tz")
    /\ Has(job.opts.repeat, "pattern")

\* mutant of MigrateV3toV4: executionType is not cleared
MigrateV3toV4KeepsExecutionType(data) ==
    LET v4 == With(data, "schemaVersion", 4)
        executionType == IF Has(data, "executionType") THEN data.executionType ELSE Nil
    IN  IF executionType = "BEGIN" THEN With(v4, "jobType", "EXECUTE_TRIGGER")
        ELSE IF executionType = "RESUME" THEN With(v4, "jobType", "DELAYED_FLOW")
        ELSE v4

\* mutant of MigrateV3toV4: the version is not advanced
MigrateV3toV4KeepsVersion(data) ==
    LET executionType == IF Has(data, "executionType") THEN data.executionType ELSE Nil
        typed == IF executionType = "BEGIN" THEN With(data, "jobType", "EXECUTE_TRIGGER")
                 ELSE IF executionType = "RESUME" THEN With(data, "jobType", "DELAYED_FLOW")
                 ELSE data
    IN  Without(typed, "executionType")

\* version 3 to 4; the property executionType, set to undefined, is not persisted
MigrateV3toV4(data) ==
    LET v4 == With(data, "schemaVersion", 4)
        executionType == IF Has(data, "executionType") THEN data.executionType ELSE Nil
        typed == IF executionType = "BEGIN" THEN With(v4, "jobType", "EXECUTE_TRIGGER")
                 ELSE IF executionType = "RESUME" THEN With(v4, "jobType", "DELAYED_FLOW")
                 ELSE v4
    IN  Without(typed, "executionType")

\* job.updateData(data): the broker's record of the job gets the payload
UpdateData(queue, jobId, data) ==
    [i \in 1..Len(queue) |->
        IF queue[i].id = jobId THEN With(queue[i], "data", data) ELSE queue[i]]

\* the job the loop is at, and the loop moving on
CurrentJob(p) == Head(mig[p].jobsToMigrate)

Goto(p, pc) == mig' = [mig EXCEPT ![p].pc = pc]

NextJob(p) == [mig[p] EXCEPT !.jobsToMigrate = Tail(@), !.pc = "next"]

\* redisQueueManager.init: the two queues are created, the pass starts
InitQueues(p) ==
    /\ mig[p].pc = "idle"
    /\ mig' = [mig EXCEPT ![p] = [@ EXCEPT !.pc = "acquireLock", !.passes = @ + 1]]
    /\ UNCHANGED <<rest, origin, oneTimeJobQueue, scheduledJobQueue, repeatable, store, last, flows, lock>>

AcquireLock(p) ==
    /\ mig[p].pc = "acquireLock"
    /\ lock = Nil
    /\ lock' = p
    /\ Goto(p, "getJobs")
    /\ UNCHANGED <<rest, origin, oneTimeJobQueue, scheduledJobQueue, repeatable, store, last, flows>>

GetJobs(p) ==
    /\ mig[p].pc = "getJobs"
    /\ mig' = [mig EXCEPT ![p] =
                [@ EXCEPT !.pc = "next",
                          !.migratedJobs = 0,
                          !.scheduledJobs = scheduledJobQueue,
                          !.jobsToMigrate =
                              SelectSeq(scheduledJobQueue, jobDataSchemaVersionIsNotLatest)]]
    /\ UNCHANGED <<rest, origin, oneTimeJobQueue, scheduledJobQueue, repeatable, store, last, flows, lock>>

\* for (const job of jobsToMigrate)
Loop(p) ==
    /\ mig[p].pc = "next"
    /\ IF mig[p].jobsToMigrate = <<>>
       THEN Goto(p, "release")
       ELSE mig' = [mig EXCEPT ![p] =
                     [@ EXCEPT !.pc = "step1",
                               !.modifiedJobData = JsonClone(CurrentJob(p).data)]]
    /\ UNCHANGED <<rest, origin, oneTimeJobQueue, scheduledJobQueue, repeatable, store, last, flows, lock>>

\* version missing or 1: the payload is rewritten to version 2
Step1(p) ==
    LET data == mig[p].modifiedJobData
    IN  /\ mig[p].pc = "step1"
        /\ IF ~Has(data, "schemaVersion") \/ data.schemaVersion = 1
           THEN mig' = [mig EXCEPT ![p] =
                         [@ EXCEPT !.pc = "write2",
                                   !.modifiedJobData = MigrateV1toV2(data),
                                   !.migratedJobs = @ + 1]]
           ELSE Goto(p, "step2")
        /\ UNCHANGED <<rest, origin, oneTimeJobQueue, scheduledJobQueue, repeatable, store, last, flows, lock>>

\* await job.updateData(modifiedJobData), of the three steps
Write(p, from, to) ==
    /\ mig[p].pc = from
    /\ scheduledJobQueue' = UpdateData(scheduledJobQueue, CurrentJob(p).id,
                                       mig[p].modifiedJobData)
    /\ mig' = [mig EXCEPT ![p] =
                IF to = "next"
                THEN NextJob(p)
                ELSE [@ EXCEPT !.pc = to,
                               !.jobsToMigrate[1] = With(@, "data", mig[p].modifiedJobData)]]
    /\ UNCHANGED <<rest, origin, oneTimeJobQueue, repeatable, store, last, flows, lock>>

Write2(p) == Write(p, "write2", "step2")

\* version 2: updateCronExpressionOfRedisToPostgresTable up to its flow lookup
Step2(p) ==
    /\ mig[p].pc = "step2"
    /\ IF mig[p].modifiedJobData.schemaVersion = 2 /\ IsRepeatable(CurrentJob(p))
       THEN Goto(p, "findFlow")
       ELSE Goto(p, "step3")
    /\ UNCHANGED <<rest, origin, oneTimeJobQueue, scheduledJobQueue, repeatable, store, last, flows, lock>>

\* mutant of FindFlow: a flow that has a schedule already is not found
FindFlowWithoutSchedule(p) ==
    LET found == {f \in DOMAIN flows :
                    /\ flows[f].publishedVersionId = CurrentJob(p).data.flowVersionId
                    /\ ~Has(flows[f], "schedule")}
    IN  /\ mig[p].pc = "findFlow"
        /\ IF found = {}
           THEN Goto(p, "step3")
           ELSE \E f \in found :
                    mig' = [mig EXCEPT ![p] = [@ EXCEPT !.pc = "updateFlow", !.flow = f]]
        /\ UNCHANGED <<rest, origin, oneTimeJobQueue, scheduledJobQueue, repeatable, store, last, flows, lock>>

\* mutant of FindFlow: the lookup is not restricted to the published version
FindFlowAnyFlow(p) ==
    /\ mig[p].pc = "findFlow"
    /\ \E f \in DOMAIN flows :
            mig' = [mig EXCEPT ![p] = [@ EXCEPT !.pc = "updateFlow", !.flow = f]]
    /\ UNCHANGED <<rest, origin, oneTimeJobQueue, scheduledJobQueue, repeatable, store, last, flows, lock>>

\* flowRepo().findOneBy({ publishedVersionId: job.data.flowVersionId })
FindFlow(p) ==
    LET found == {f \in DOMAIN flows :
                    flows[f].publishedVersionId = CurrentJob(p).data.flowVersionId}
    IN  /\ mig[p].pc = "findFlow"
        /\ IF found = {}
           THEN Goto(p, "step3")
           ELSE \E f \in found :
                    mig' = [mig EXCEPT ![p] = [@ EXCEPT !.pc = "updateFlow", !.flow = f]]
        /\ UNCHANGED <<rest, origin, oneTimeJobQueue, scheduledJobQueue, repeatable, store, last, flows, lock>>

\* flowRepo().update(flow.id, { schedule }); updated is true: version 3
UpdateFlow(p) ==
    /\ mig[p].pc = "updateFlow"
    /\ flows' = [flows EXCEPT ![mig[p].flow] =
                    With(@, "schedule", CronSchedule(CurrentJob(p).opts.repeat))]
    /\ mig' = [mig EXCEPT ![p] =
                [@ EXCEPT !.pc = "write3",
                          !.flow = Nil,
                          !.modifiedJobData = With(@, "schemaVersion", 3),
                          !.migratedJobs = @ + 1]]
    /\ UNCHANGED <<rest, origin, oneTimeJobQueue, scheduledJobQueue, repeatable, store, last, lock>>

Write3(p) == Write(p, "write3", "step3")

\* version 3: executionType becomes jobType, version 4
Step3(p) ==
    LET data == mig[p].modifiedJobData
    IN  /\ mig[p].pc = "step3"
        /\ IF data.schemaVersion = 3
           THEN mig' = [mig EXCEPT ![p] =
                         [@ EXCEPT !.pc = "write4",
                                   !.modifiedJobData = MigrateV3toV4(data),
                                   !.migratedJobs = @ + 1]]
           ELSE mig' = [mig EXCEPT ![p] = NextJob(p)]
        /\ UNCHANGED <<rest, origin, oneTimeJobQueue, scheduledJobQueue, repeatable, store, last, flows, lock>>

Write4(p) == Write(p, "write4", "next")

\* mutant of ReleaseLock: the release is not in a finally block
ReleaseLockUnlessError(p) ==
    /\ mig[p].pc = "release"
    /\ lock' = IF lock = p /\ mig[p].error = Nil THEN Nil ELSE lock
    /\ mig' = [mig EXCEPT ![p] =
                [@ EXCEPT !.pc = IF mig[p].error = Nil THEN "done" ELSE "failed",
                          !.released = IF mig[p].error = Nil THEN @ + 1 ELSE @]]
    /\ UNCHANGED <<rest, origin, oneTimeJobQueue, scheduledJobQueue, repeatable, store, last, flows>>

\* finally: migrationLock.release(); init() returns, or rejects with the
\* error that ended the pass
ReleaseLock(p) ==
    /\ mig[p].pc = "release"
    /\ lock' = IF lock = p THEN Nil ELSE lock
    /\ mig' = [mig EXCEPT ![p] =
                [@ EXCEPT !.pc = IF mig[p].error = Nil THEN "done" ELSE "failed",
                          !.released = @ + 1]]
    /\ UNCHANGED <<rest, origin, oneTimeJobQueue, scheduledJobQueue, repeatable, store, last, flows>>

\* ------------------------------------------------------------------------
\* Specification of init(): a process starts on a queue that holds stored jobs
\* ------------------------------------------------------------------------
DistinctIds(queue) ==
    \A i, j \in 1..Len(queue) : queue[i].id = queue[j].id => i = j

\* the flow of a flow version is there with that version published, or with
\* no version published
StoredFlows ==
    [{FlowIdOf(fv) : fv \in Ids} ->
        {[publishedVersionId |-> v] : v \in Ids \cup {Nil}}]

MigInit ==
    /\ work = NoWork
    /\ facade = DurableFacade
    /\ hooks = NoHook
    /\ inflight = NoneInFlight
    /\ oneTimeJobQueue = <<>>
    /\ scheduledJobQueue \in
            {q \in UNION {[1..n -> StoredJobs] : n \in 0..MaxLegacy} : DistinctIds(q)}
    /\ repeatable = {[key |-> job.repeatJobKey, name |-> job.name,
                      pattern |-> IF Has(job.opts.repeat, "pattern")
                                  THEN job.opts.repeat.pattern ELSE Nil,
                      tz |-> IF Has(job.opts.repeat, "tz") THEN job.opts.repeat.tz ELSE Nil] :
                        job \in {scheduledJobQueue[i] : i \in 1..Len(scheduledJobQueue)}
                                    \cap StoredRepeatJobs}
    /\ store = [k \in StoreKeys |-> Nil]
    /\ last = NoCall
    /\ flows \in {f \in StoredFlows :
                    \A fv \in Ids : f[FlowIdOf(fv)].publishedVersionId \in {fv, Nil}}
    /\ lock = Nil
    /\ mig = [p \in Procs |-> Idle]
    /\ origin = [queue |-> scheduledJobQueue, flows |-> flows]

\* one step of the init() call of process p
MigStep(p) ==
    \/ InitQueues(p)
    \/ AcquireLock(p)
    \/ GetJobs(p)
    \/ Loop(p)
    \/ Step1(p)
    \/ Write2(p)
    \/ Step2(p)
    \/ FindFlow(p)
    \/ UpdateFlow(p)
    \/ Write3(p)
    \/ Step3(p)
    \/ Write4(p)
    \/ ReleaseLock(p)

\* init() has returned or rejected and is to be called again: the process is
\* started again, with fresh locals
Restart(p) ==
    /\ mig[p].pc \in {"done", "failed"}
    /\ mig[p].passes < MaxPasses
    /\ mig' = [mig EXCEPT ![p] = [Idle EXCEPT !.passes = mig[p].passes]]
    /\ UNCHANGED <<rest, origin, oneTimeJobQueue, scheduledJobQueue, repeatable, store, last, flows, lock>>

MigNext == \E p \in Single : MigStep(p) \/ Restart(p)

MigSpec == MigInit /\ [][MigNext]_vars

\* ------------------------------------------------------------------------
\* init() when awaited calls reject
\* ------------------------------------------------------------------------
\* the awaited calls of the pass to the broker and to external persistence:
\* getJobs, updateData, findOneBy, update
AwaitedSteps == {"getJobs", "write2", "findFlow", "updateFlow", "write3", "write4"}

\* an awaited call inside try rejects: no catch, the finally block runs next
StepFails(p) ==
    /\ mig[p].pc \in AwaitedSteps
    /\ mig' = [mig EXCEPT ![p] = [@ EXCEPT !.pc = "release", !.error = "error"]]
    /\ UNCHANGED <<rest, origin, oneTimeJobQueue, scheduledJobQueue, repeatable, store, last, flows, lock>>

\* await acquireLock(...) rejects (the lock stays with another holder, or the
\* lock service is not reached): it is outside try, init() rejects
AcquireFails(p) ==
    /\ mig[p].pc = "acquireLock"
    /\ mig' = [mig EXCEPT ![p] = [@ EXCEPT !.pc = "failed", !.error = "lock"]]
    /\ UNCHANGED <<rest, origin, oneTimeJobQueue, scheduledJobQueue, repeatable, store, last, flows, lock>>

MigFaultNext == \E p \in Single : MigStep(p) \/ StepFails(p) \/ AcquireFails(p)

MigFaultSpec == MigInit /\ [][MigFaultNext]_vars

\* the shorter queues of stored jobs
FairInit == MigInit /\ Len(scheduledJobQueue) <= MaxFairLegacy

\* every awaited call settles, so that a started init() goes on
MigFaultFairSpec == FairInit /\ [][MigFaultNext]_vars /\ WF_vars(MigFaultNext)

\* ------------------------------------------------------------------------
\* Several worker processes, and the timeout of the lock
\* ------------------------------------------------------------------------
\* the lock was acquired with timeout 30000: when the time has passed the lock
\* service has the key free again, whatever its holder is doing
LockExpires ==
    /\ lock # Nil
    /\ lock' = Nil
    /\ UNCHANGED <<rest, origin, oneTimeJobQueue, scheduledJobQueue, repeatable, store, last, flows, mig>>

\* every process starts once, on a queue of stored jobs
MigConcNext == (\E p \in Procs : MigStep(p)) \/ LockExpires

MigConcSpec == FairInit /\ [][MigConcNext]_vars

\* ------------------------------------------------------------------------
\* A process that ends in the middle of its pass and is started again
\* ------------------------------------------------------------------------
\* the process ends between two awaited operations: its locals are lost, the
\* lock stays with it until the timeout; the process is started again
Crash(p) ==
    /\ mig[p].pc \notin {"idle", "done", "failed"}
    /\ mig[p].passes < MaxPasses
    /\ mig' = [mig EXCEPT ![p] = [Idle EXCEPT !.passes = mig[p].passes]]
    /\ UNCHANGED <<rest, origin, oneTimeJobQueue, scheduledJobQueue, repeatable, store, last, flows, lock>>

MigCrashNext == (\E p \in Single : MigStep(p) \/ Crash(p)) \/ LockExpires

MigCrashSpec == FairInit /\ [][MigCrashNext]_vars

\* ------------------------------------------------------------------------
\* add when the broker rejects the enqueue
\* ------------------------------------------------------------------------
\* the queue add sends a job of these parameters to
QueueOf(params) ==
    IF params.type \in {"REPEATING", "DELAYED"}
    THEN SCHEDULED_JOB_QUEUE ELSE ONE_TIME_JOB_QUEUE

\* the error of a broker request that failed (connection loss, timeout)
BrokerError == "BrokerError"

\* the options add passes with the enqueue of a job
EnqueueOpts(params) ==
    CASE params.type = "REPEATING" -> RepeatingOpts(params)
      [] params.type = "DELAYED" -> DelayedOpts(params)
      [] OTHER -> [jobId |-> params.id, priority |-> BrokerPriority(params.priority)]

\* the enqueue add sends first, rejected by the broker
RejectedEnqueue(params) ==
    [cmd |-> "add", queue |-> QueueOf(params), name |-> params.id,
     data |-> params.data, opts |-> EnqueueOpts(params), reply |-> BrokerError]

\* mutant of AddRejected: the rejection is caught and reported, add returns
AddRejectedSwallowed(params) ==
    /\ last' = Done("add", params, <<RejectedEnqueue(params)>>, {}, {BrokerError})
    /\ UNCHANGED <<oneTimeJobQueue, scheduledJobQueue, repeatable, store, migVars>>

\* the awaited Queue.add rejects: no branch of add has a catch, the rejection
\* is the outcome of add and nothing after the enqueue runs
AddRejected(params) ==
    /\ last' = Done("add", params, <<RejectedEnqueue(params)>>, {BrokerError}, {})
    /\ UNCHANGED <<oneTimeJobQueue, scheduledJobQueue, repeatable, store, migVars>>

Rejected == \E params \in OneTimeParams \cup DelayedParams \cup KeyedRepeatingParams :
                AddRejected(params) /\ UNCHANGED rest

NextRejects == AddKeyed \/ Remove \/ Rejected

SpecRejects == Init /\ [][NextRejects]_vars

\* ------------------------------------------------------------------------
\* add(REPEATING) when the side store rejects the mapping write
\* ------------------------------------------------------------------------
\* the enqueue was answered with the job and its repeat key, the awaited
\* client.set rejects: the rejection is the outcome of add, the schedule the
\* enqueue registered stays, the side store is as it was
AddSetRejected(params, pos) ==
    LET id   == params.id
        opts == RepeatingOpts(params)
        key  == RepeatKey(id, opts.jobId, opts.repeat.tz, opts.repeat.pattern)
        enqueue == [cmd |-> "add", queue |-> SCHEDULED_JOB_QUEUE, name |-> id,
                    data |-> params.data, opts |-> opts, reply |-> key]
        set == [cmd |-> "set", key |-> repeatingJobKey(id), value |-> key,
                error |-> BrokerError]
    IN  /\ params.type = "REPEATING"
        /\ key \in RepeatableKeys \/ Len(scheduledJobQueue) < MaxScheduled
        /\ scheduledJobQueue' = QueueAddRepeat(scheduledJobQueue, pos, id, params.data, opts, key)
        /\ repeatable' = RegisterRepeat(id, opts, key)
        /\ last' = Done("add", params, <<enqueue, set>>, {BrokerError}, {})
        /\ UNCHANGED <<origin, oneTimeJobQueue, store, migVars>>

SetRejected == \E params \in KeyedRepeatingParams, pos \in Positions(scheduledJobQueue) :
                   AddSetRejected(params, pos) /\ UNCHANGED rest

NextSetRejects == AddKeyed \/ Remove \/ SetRejected

SpecSetRejects == Init /\ [][NextSetRejects]_vars

\* ------------------------------------------------------------------------
\* removeRepeatingJob when the broker rejects the removal
\* ------------------------------------------------------------------------
\* the removal request of removeRepeatingJob, rejected by the broker
RejectedRemoval(jobKey) ==
    [cmd |-> "removeRepeatableByKey", queue |-> SCHEDULED_JOB_QUEUE,
     key |-> jobKey, error |-> BrokerError]

\* mutant of RemoveRejected: the mapping is deleted before the removal is asked
RemoveRejectedAfterDel(id) ==
    LET found == findRepeatableJobKey(id)
    IN  /\ ~isNil(found.jobKey)
        /\ store' = [store EXCEPT ![repeatingJobKey(id)] = Nil]
        /\ last' = Done("removeRepeatingJob", [id |-> id],
                        found.calls \o <<[cmd |-> "del", key |-> repeatingJobKey(id)],
                                         RejectedRemoval(found.jobKey)>>,
                        {BrokerError}, {})
        /\ UNCHANGED <<oneTimeJobQueue, scheduledJobQueue, repeatable, migVars>>

\* the awaited removeRepeatableByKey rejects: the rejection is the outcome of
\* removeRepeatingJob, client.del is not reached
RemoveRejected(id) ==
    LET found == findRepeatableJobKey(id)
    IN  /\ ~isNil(found.jobKey)
        /\ store' = store
        /\ last' = Done("removeRepeatingJob", [id |-> id],
                        found.calls \o <<RejectedRemoval(found.jobKey)>>,
                        {BrokerError}, {})
        /\ UNCHANGED <<oneTimeJobQueue, scheduledJobQueue, repeatable, migVars>>

RemovalRejected == \E id \in Ids : RemoveRejected(id) /\ UNCHANGED rest

NextRemovalRejects == AddKeyed \/ Remove \/ RemovalRejected

SpecRemovalRejects == Init /\ [][NextRemovalRejects]_vars

\* ------------------------------------------------------------------------
\* add and removeRepeatingJob before init() has created the queues
\* ------------------------------------------------------------------------
\* oneTimeJobQueue and scheduledJobQueue are module variables that init()
\* assigns: they are undefined until the first init() of the process
QueuesCreated(p) == mig[p].pc # "idle" \/ mig[p].passes > 0

\* reading a property of undefined
TypeError == "TypeError"

\* mutant of AddUninitialized: the queues exist from the load of the module
AddOnDemand(p, params) ==
    /\ ~QueuesCreated(p)
    /\ add(params, {TRUE})

\* add reads scheduledJobQueue.add or oneTimeJobQueue.add of an undefined
\* queue: the call rejects before any request is sent
AddUninitialized(p, params) ==
    /\ ~QueuesCreated(p)
    /\ last' = Done("add", params, <<>>, {TypeError}, {})
    /\ UNCHANGED <<oneTimeJobQueue, scheduledJobQueue, repeatable, store, migVars>>

\* removeRepeatingJob reads scheduledJobQueue.client in its first statement
RemoveUninitialized(p, id) ==
    /\ ~QueuesCreated(p)
    /\ last' = Done("removeRepeatingJob", [id |-> id], <<>>, {TypeError}, {})
    /\ UNCHANGED <<oneTimeJobQueue, scheduledJobQueue, repeatable, store, migVars>>

AddBeforeInit(p) ==
    \E params \in OneTimeParams \cup DelayedParams \cup KeyedRepeatingParams :
        AddUninitialized(p, params) /\ UNCHANGED rest

RemoveBeforeInit(p) == \E id \in Ids : RemoveUninitialized(p, id) /\ UNCHANGED rest

\* a process that is called before its init(), and then runs init()
StartNext ==
    \E p \in Single :
        \/ MigStep(p)
        \/ AddBeforeInit(p)
        \/ RemoveBeforeInit(p)

StartSpec == FairInit /\ [][StartNext]_vars

\* ------------------------------------------------------------------------
\* add(REPEATING) and removeRepeatingJob at the same time, one awaited
\* request per step
\* ------------------------------------------------------------------------
SetAdd(record) == inflight' = [inflight EXCEPT !.add = record]

SetRemove(record) == inflight' = [inflight EXCEPT !.remove = record]

CallAdd(params) ==
    /\ inflight.add.pc = "idle"
    /\ params.type = "REPEATING"
    /\ SetAdd([inflight.add EXCEPT !.pc = "enqueue", !.params = params])
    /\ UNCHANGED <<oneTimeJobQueue, scheduledJobQueue, repeatable, store, last,
                   migVars, work, facade, hooks>>

\* await scheduledJobQueue.add(id, data, { jobId, repeat })
AddEnqueues ==
    \E pos \in Positions(scheduledJobQueue) :
        LET params == inflight.add.params
            opts == RepeatingOpts(params)
            key == RepeatKey(params.id, opts.jobId, opts.repeat.tz, opts.repeat.pattern)
        IN  /\ inflight.add.pc = "enqueue"
            /\ key \in RepeatableKeys \/ Len(scheduledJobQueue) < MaxScheduled
            /\ scheduledJobQueue' =
                  QueueAddRepeat(scheduledJobQueue, pos, params.id, params.data, opts, key)
            /\ repeatable' = RegisterRepeat(params.id, opts, key)
            /\ SetAdd([inflight.add EXCEPT !.pc = IF isNil(key) THEN "returned" ELSE "set",
                                           !.repeatJobKey = key])
            /\ UNCHANGED <<oneTimeJobQueue, store, last, migVars, work, facade, hooks>>

\* await client.set(repeatingJobKey(id), job.repeatJobKey)
AddSetsMapping ==
    /\ inflight.add.pc = "set"
    /\ store' = MappingAfterAdd(inflight.add.params.id, inflight.add.repeatJobKey)
    /\ SetAdd([inflight.add EXCEPT !.pc = "returned"])
    /\ UNCHANGED <<oneTimeJobQueue, scheduledJobQueue, repeatable, last,
                   migVars, work, facade, hooks>>

CallRemove(id) ==
    /\ inflight.remove.pc = "idle"
    /\ SetRemove([inflight.remove EXCEPT !.pc = "get", !.id = id])
    /\ UNCHANGED <<oneTimeJobQueue, scheduledJobQueue, repeatable, store, last,
                   migVars, work, facade, hooks>>

\* findRepeatableJobKey: await client.get(repeatingJobKey(id))
RemoveGets ==
    LET jobKey == store[repeatingJobKey(inflight.remove.id)]
    IN  /\ inflight.remove.pc = "get"
        /\ SetRemove([inflight.remove EXCEPT
                        !.jobKey = jobKey,
                        !.pc = IF isNil(jobKey) THEN "getJobs" ELSE "removeRepeatableByKey"])
        /\ UNCHANGED <<oneTimeJobQueue, scheduledJobQueue, repeatable, store, last,
                       migVars, work, facade, hooks>>

\* findRepeatableJobKey: await scheduledJobQueue.getJobs(), and the scan
RemoveScans ==
    LET jobKey == ScanForKey(scheduledJobQueue, inflight.remove.id)
    IN  /\ inflight.remove.pc = "getJobs"
        /\ SetRemove([inflight.remove EXCEPT
                        !.jobKey = jobKey,
                        !.pc = IF isNil(jobKey) THEN "returned" ELSE "removeRepeatableByKey",
                        !.reported = IF isNil(jobKey)
                                     THEN {KeyNotFound(inflight.remove.id)} ELSE {}])
        /\ UNCHANGED <<oneTimeJobQueue, scheduledJobQueue, repeatable, store, last,
                       migVars, work, facade, hooks>>

\* await scheduledJobQueue.removeRepeatableByKey(jobKey)
RemoveRemoves ==
    LET jobKey == inflight.remove.jobKey
        result == jobKey \in RepeatableKeys
    IN  /\ inflight.remove.pc = "removeRepeatableByKey"
        /\ repeatable' = {r \in repeatable : r.key # jobKey}
        /\ scheduledJobQueue' = RemoveInstances(scheduledJobQueue, jobKey)
        /\ SetRemove([inflight.remove EXCEPT
                        !.pc = "del",
                        !.error = RemovalError(inflight.remove.id, result)])
        /\ UNCHANGED <<oneTimeJobQueue, store, last, migVars, work, facade, hooks>>

\* await client.del(repeatingJobKey(id)), then the throw if the broker had
\* answered false
RemoveDeletes ==
    /\ inflight.remove.pc = "del"
    /\ store' = [store EXCEPT ![repeatingJobKey(inflight.remove.id)] = Nil]
    /\ SetRemove([inflight.remove EXCEPT !.pc = "returned"])
    /\ UNCHANGED <<oneTimeJobQueue, scheduledJobQueue, repeatable, last,
                   migVars, work, facade, hooks>>

RaceNext ==
    \/ \E params \in KeyedRepeatingParams : CallAdd(params)
    \/ AddEnqueues
    \/ AddSetsMapping
    \/ \E id \in Ids : CallRemove(id)
    \/ RemoveGets
    \/ RemoveScans
    \/ RemoveRemoves
    \/ RemoveDeletes

RaceSpec == Init /\ [][RaceNext]_vars

\* ------------------------------------------------------------------------
\* Workers: how the broker hands out the jobs add has enqueued
\* ------------------------------------------------------------------------
\* number of clock steps of the broker
MaxTicks == 3
\* milliseconds of one clock step
TickMs == 2500

\* ids of the ONE_TIME jobs offered to the workers
WorkIds == {"r1", "r2", "r3"}
\* ids of the DELAYED jobs, and of the ONE_TIME jobs that may fail
PairIds == {"r1", "r2"}

EIGHT_MINUTES_IN_MILLISECONDS == 8 * 60 * 1000

\* mutant of defaultJobOptions: the queue is created without the options, a
\* job has the broker's one attempt and stays in storage when completed
defaultJobOptionsUnset ==
    [attempts |-> 1,
     backoff |-> [type |-> "fixed", delay |-> 0],
     removeOnComplete |-> FALSE]

defaultJobOptions ==
    [attempts |-> 5,
     backoff |-> [type |-> "exponential", delay |-> EIGHT_MINUTES_IN_MILLISECONDS],
     removeOnComplete |-> TRUE]

WorkOneTimeParams(ids) ==
    {[type |-> "ONE_TIME", id |-> id, data |-> [runId |-> id], priority |-> p] :
        id \in ids, p \in Priorities}

WorkDelayedParams ==
    {[type |-> "DELAYED", id |-> x[1], data |-> ScheduledData(x[2], "DELAYED_FLOW"),
      delay |-> x[3]] : x \in PairIds \X DelayedFlowVersions \X Delays}

Queue(name) == IF name = ONE_TIME_JOB_QUEUE THEN oneTimeJobQueue ELSE scheduledJobQueue

JobKey(name, id) == name \o ":" \o id

\* the stored job a record of the broker is about, and its place in the queue
Position(k) ==
    CHOOSE i \in 1..Len(Queue(work.meta[k].queue)) :
        Queue(work.meta[k].queue)[i].id = work.meta[k].id

JobOf(k) == Queue(work.meta[k].queue)[Position(k)]

\* the broker's record of a job add has just created: a job whose id is
\* already stored is not created again and keeps its record
Stamp(params) ==
    LET k == JobKey(QueueOf(params), params.id)
    IN  IF k \in DOMAIN work.meta
        THEN work
        ELSE [work EXCEPT !.meta = @ @@
                (k :> [queue |-> QueueOf(params), id |-> params.id,
                       timestamp |-> work.now, asked |-> params,
                       state |-> "waiting", attemptsMade |-> 0,
                       deliveries |-> 0, processedOn |-> Nil])]

\* add as the workers see it: the call of the code, and the broker's record
WorkAdd(params) ==
    /\ add(params, {TRUE})
    /\ work' = Stamp(params)
    /\ UNCHANGED <<facade, hooks, inflight>>

DelayOf(job) == IF Has(job.opts, "delay") THEN job.opts.delay ELSE 0

PriorityOf(job) == IF Has(job.opts, "priority") THEN job.opts.priority ELSE 0

\* a job a worker may take now: it waits and its delay has elapsed
Eligible(k) ==
    /\ work.meta[k].state = "waiting"
    /\ work.now >= work.meta[k].timestamp + DelayOf(JobOf(k))

\* j is handed out before k: a lower priority value first, and on the
\* immediate queue equal priorities in arrival order
Precedes(j, k) ==
    /\ work.meta[j].queue = work.meta[k].queue
    /\ \/ PriorityOf(JobOf(j)) < PriorityOf(JobOf(k))
       \/ /\ PriorityOf(JobOf(j)) = PriorityOf(JobOf(k))
          /\ work.meta[k].queue = ONE_TIME_JOB_QUEUE
          /\ Position(j) < Position(k)

SetMeta(k, record) == work' = [work EXCEPT !.meta[k] = record]

Dequeue(k) ==
    /\ Eligible(k)
    /\ \A j \in DOMAIN work.meta \ {k} : Eligible(j) => ~Precedes(j, k)
    /\ SetMeta(k, [work.meta[k] EXCEPT !.state = "active",
                                       !.deliveries = @ + 1,
                                       !.processedOn = work.now])
    /\ UNCHANGED <<oneTimeJobQueue, scheduledJobQueue, repeatable, store, last,
                   migVars, facade, hooks, inflight>>

\* the queue without the job of record k
Removed(k, name) ==
    LET Keep(job) == job.id # work.meta[k].id
    IN  IF work.meta[k].queue = name THEN SelectSeq(Queue(name), Keep) ELSE Queue(name)

Complete(k) ==
    /\ work.meta[k].state = "active"
    /\ IF defaultJobOptions.removeOnComplete
       THEN /\ work' = [work EXCEPT !.meta = [j \in DOMAIN @ \ {k} |-> @[j]]]
            /\ oneTimeJobQueue' = Removed(k, ONE_TIME_JOB_QUEUE)
            /\ scheduledJobQueue' = Removed(k, SCHEDULED_JOB_QUEUE)
       ELSE /\ SetMeta(k, [work.meta[k] EXCEPT !.state = "completed"])
            /\ UNCHANGED <<oneTimeJobQueue, scheduledJobQueue>>
    /\ UNCHANGED <<repeatable, store, last, migVars, facade, hooks, inflight>>

\* an attempt fails: the job is tried again after its backoff unless this was
\* the last attempt of its budget
Fail(k) ==
    /\ work.meta[k].state = "active"
    /\ SetMeta(k, [work.meta[k] EXCEPT
                      !.attemptsMade = @ + 1,
                      !.state = IF work.meta[k].attemptsMade + 1 < defaultJobOptions.attempts
                                THEN "backoff" ELSE "failed"])
    /\ UNCHANGED <<oneTimeJobQueue, scheduledJobQueue, repeatable, store, last,
                   migVars, facade, hooks, inflight>>

\* the backoff of a failed attempt is over (the clock of the model stops long
\* before eight minutes: the end of a backoff is a step of its own)
Retry(k) ==
    /\ work.meta[k].state = "backoff"
    /\ SetMeta(k, [work.meta[k] EXCEPT !.state = "waiting"])
    /\ UNCHANGED <<oneTimeJobQueue, scheduledJobQueue, repeatable, store, last,
                   migVars, facade, hooks, inflight>>

Tick ==
    /\ work.now < MaxTicks * TickMs
    /\ work' = [work EXCEPT !.now = @ + TickMs]
    /\ UNCHANGED <<oneTimeJobQueue, scheduledJobQueue, repeatable, store, last,
                   migVars, facade, hooks, inflight>>

\* ONE_TIME jobs of both priorities and the workers that complete them
AddWork == \E params \in WorkOneTimeParams(WorkIds) : WorkAdd(params)

WorkNext ==
    \/ AddWork
    \/ \E k \in DOMAIN work.meta : Dequeue(k) \/ Complete(k)

WorkSpec == Init /\ [][WorkNext]_vars

\* DELAYED jobs, the clock, and the workers that complete them
AddDelayedWork == \E params \in WorkDelayedParams : WorkAdd(params)

DelayNext ==
    \/ AddDelayedWork
    \/ Tick
    \/ \E k \in DOMAIN work.meta : Dequeue(k) \/ Complete(k)

DelaySpec == Init /\ [][DelayNext]_vars

\* ONE_TIME jobs whose attempts may fail
AddRetried == \E params \in WorkOneTimeParams(PairIds) : WorkAdd(params)

RetryNext ==
    \/ AddRetried
    \/ \E k \in DOMAIN work.meta : Dequeue(k) \/ Complete(k) \/ Fail(k) \/ Retry(k)

RetrySpec == Init /\ [][RetryNext]_vars

\* ------------------------------------------------------------------------
\* flow-queue.ts: the facade
\* ------------------------------------------------------------------------
\* largest number of calls made through the facade
MaxCalls == 3

\* values system.get(SystemProp.QUEUE_MODE) may give (Nil: not configured)
QueueModes == {"MEMORY", "REDIS", "OTHER", Nil}

FacadeOps == {"init", "add", "removeRepeatingJob"}

\* mutant of flowQueue: the durable backend only for queue mode REDIS
flowQueueDurableIfRedis(queueMode) ==
    IF queueMode = "REDIS" THEN "redisQueueManager" ELSE "inMemoryQueueManager"

\* queueMode === QueueMode.MEMORY ? inMemoryQueueManager : redisQueueManager
flowQueue(queueMode) ==
    IF queueMode = "MEMORY" THEN "inMemoryQueueManager" ELSE "redisQueueManager"

\* the module is evaluated, once, when the process first imports it
LoadModule ==
    /\ facade.backend = Nil
    /\ facade' = [facade EXCEPT !.loaded = facade.queueMode,
                                !.backend = flowQueue(facade.queueMode)]
    /\ UNCHANGED <<oneTimeJobQueue, scheduledJobQueue, repeatable, store, last,
                   migVars, work, hooks, inflight>>

\* the configuration changes while the process runs
Reconfigure(queueMode) ==
    /\ facade' = [facade EXCEPT !.queueMode = queueMode]
    /\ UNCHANGED <<oneTimeJobQueue, scheduledJobQueue, repeatable, store, last,
                   migVars, work, hooks, inflight>>

\* a caller invokes flowQueue.init, flowQueue.add or
\* flowQueue.removeRepeatingJob: the call goes to the object bound to the
\* exported constant
Call(op) ==
    /\ facade.backend # Nil
    /\ facade.calls < MaxCalls
    /\ facade' = [facade EXCEPT !.call = [op |-> op, backend |-> facade.backend],
                                !.calls = @ + 1]
    /\ UNCHANGED <<oneTimeJobQueue, scheduledJobQueue, repeatable, store, last,
                   migVars, work, hooks, inflight>>

\* a process that has not loaded the module yet, under any configuration
FacadeInit ==
    /\ oneTimeJobQueue = <<>>
    /\ scheduledJobQueue = <<>>
    /\ repeatable = {}
    /\ store = [k \in StoreKeys |-> Nil]
    /\ last = NoCall
    /\ flows = <<>>
    /\ lock = Nil
    /\ mig = [p \in Procs |-> Idle]
    /\ origin = [queue |-> scheduledJobQueue, flows |-> flows]
    /\ work = NoWork
    /\ hooks = NoHook
    /\ inflight = NoneInFlight
    /\ facade \in {[queueMode |-> m, loaded |-> Nil, backend |-> Nil,
                    call |-> NoFacadeCall, calls |-> 0] : m \in QueueModes}

FacadeNext ==
    \/ LoadModule
    \/ \E queueMode \in QueueModes : Reconfigure(queueMode)
    \/ \E op \in FacadeOps : Call(op)

FacadeSpec == FacadeInit /\ [][FacadeNext]_vars

\* ------------------------------------------------------------------------
\* cloud-flow-worker-hooks.ts: platformWorkerHooks.preExecute
\* ------------------------------------------------------------------------
\* ApEdition: COMMUNITY, ENTERPRISE, CLOUD
Editions == {"ce", "ee", "cloud"}

\* flow runs a worker is about to execute
HookRuns == {"r1", "r2"}

\* outcomes of tasksLimit.limit: it returns, or throws an ActivepiecesError
\* with code QUOTA_EXCEEDED, an ActivepiecesError with another code, or
\* another error
LimitOutcomes == {"ok", "QUOTA_EXCEEDED", "ENTITY_NOT_FOUND", "Error"}

\* outcomes of flowRunService.finish: it returns or rejects
FinishOutcomes == {"ok", "Error"}

\* the record of a preExecute call: whether tasksLimit.limit was called, what
\* it raised, and the error preExecute rejected with (none: it returned)
HookDone(edition, runId, checked, raised, error) ==
    [op |-> "preExecute", edition |-> edition, runId |-> runId,
     checked |-> checked, raised |-> raised, error |-> error]

preExecute(edition, runId, limit, finish) ==
    /\ IF edition \in {"cloud", "ee"}
       THEN \/ /\ limit = "ok"
               /\ hooks' = [hooks EXCEPT !.last = HookDone(edition, runId, TRUE, "none", {})]
            \* the catch block: the await of flowRunService.finish is not
            \* guarded, its rejection is the outcome of preExecute
            \/ /\ limit = "QUOTA_EXCEEDED"
               /\ IF finish = "ok"
                  THEN hooks' = [hooks EXCEPT
                         !.runs[runId] = [status |-> "QUOTA_EXCEEDED", tasks |-> 0],
                         !.last = HookDone(edition, runId, TRUE, limit, {})]
                  ELSE hooks' = [hooks EXCEPT
                         !.last = HookDone(edition, runId, TRUE, limit, {finish})]
            \/ /\ limit \notin {"ok", "QUOTA_EXCEEDED"}
               /\ hooks' = [hooks EXCEPT
                         !.handled = @ \cup {limit},
                         !.last = HookDone(edition, runId, TRUE, limit, {})]
       ELSE hooks' = [hooks EXCEPT !.last = HookDone(edition, runId, FALSE, "none", {})]
    /\ UNCHANGED <<oneTimeJobQueue, scheduledJobQueue, repeatable, store, last,
                   migVars, work, facade, inflight>>

\* the runs are running, preExecute was never called
HookInit ==
    /\ oneTimeJobQueue = <<>>
    /\ scheduledJobQueue = <<>>
    /\ repeatable = {}
    /\ store = [k \in StoreKeys |-> Nil]
    /\ last = NoCall
    /\ flows = <<>>
    /\ lock = Nil
    /\ mig = [p \in Procs |-> [Idle EXCEPT !.pc = "done"]]
    /\ origin = [queue |-> scheduledJobQueue, flows |-> flows]
    /\ work = NoWork
    /\ facade = DurableFacade
    /\ inflight = NoneInFlight
    /\ hooks = [runs |-> [r \in HookRuns |-> [status |-> "RUNNING"]],
                last |-> [op |-> "none"], handled |-> {}]

HookNext ==
    \E edition \in Editions, runId \in HookRuns,
       limit \in LimitOutcomes, finish \in FinishOutcomes :
        preExecute(edition, runId, limit, finish)

HookSpec == HookInit /\ [][HookNext]_vars

\* ------------------------------------------------------------------------
\* Properties of add
\* ------------------------------------------------------------------------
JobsWithId(queue, id) == {i \in 1..Len(queue) : queue[i].id = id}

SchedulesOf(id, set) == {r \in set : r.name = id}

CallsOf(record, cmd) == {i \in 1..Len(record.calls) : record.calls[i].cmd = cmd}

\* C1: a step that is add of a ONE_TIME job sends exactly one enqueue, to the
\* immediate queue, with jobId = id and priority 1 for 'high' and 2 for every
\* other priority; afterwards the immediate queue holds exactly one job of
\* that id (appended with these options when the id was not yet queued), and
\* the scheduled queue, the repeatable set and the side store are unchanged.
C1_OneTimeEnqueue ==
    [][(last'.op = "add" /\ last'.params.type = "ONE_TIME") =>
        LET p    == last'.params
            want == [jobId |-> p.id, priority |-> IF p.priority = "high" THEN 1 ELSE 2]
        IN  /\ Len(last'.calls) = 1
            /\ last'.calls[1].cmd = "add"
            /\ last'.calls[1].queue = ONE_TIME_JOB_QUEUE
            /\ last'.calls[1].opts = want
            /\ last'.error = {}
            /\ Cardinality(JobsWithId(oneTimeJobQueue', p.id)) = 1
            /\ ~HasJob(oneTimeJobQueue, p.id) =>
                   oneTimeJobQueue' = Append(oneTimeJobQueue,
                       [id |-> p.id, name |-> p.id, data |-> p.data, opts |-> want])
            /\ UNCHANGED <<scheduledJobQueue, repeatable, store>>
    ]_vars

\* a ONE_TIME job of a priority other than 'high' was enqueued with priority 2
C1_Witness ==
    /\ last.op = "add"
    /\ last.params.type = "ONE_TIME"
    /\ last.params.priority # "high"
    /\ \E i \in JobsWithId(oneTimeJobQueue, last.params.id) :
            oneTimeJobQueue[i].opts.priority = 2

\* C2: a step that is add of a DELAYED job sends exactly one enqueue, to the
\* scheduled queue, with jobId = id and the caller's delay and without repeat
\* options; afterwards the scheduled queue holds exactly one job of that id
\* (carrying that delay when the id was not yet queued); nothing is written to
\* the side store, and the immediate queue and the repeatable set are unchanged.
C2_DelayedEnqueue ==
    [][(last'.op = "add" /\ last'.params.type = "DELAYED") =>
        LET p == last'.params
        IN  /\ Len(last'.calls) = 1
            /\ last'.calls[1].cmd = "add"
            /\ last'.calls[1].queue = SCHEDULED_JOB_QUEUE
            /\ last'.calls[1].opts = [jobId |-> p.id, delay |-> p.delay]
            /\ last'.error = {}
            /\ Cardinality(JobsWithId(scheduledJobQueue', p.id)) = 1
            /\ Len(scheduledJobQueue') <= Len(scheduledJobQueue) + 1
            /\ ~HasJob(scheduledJobQueue, p.id) =>
                   \E i \in JobsWithId(scheduledJobQueue', p.id) :
                        /\ scheduledJobQueue'[i].opts = [jobId |-> p.id, delay |-> p.delay]
                        /\ scheduledJobQueue'[i].data = p.data
                        /\ ~Has(scheduledJobQueue'[i], "repeatJobKey")
            /\ UNCHANGED <<origin, oneTimeJobQueue, repeatable, store>>
    ]_vars

\* a DELAYED job was enqueued beside a job that was already scheduled
C2_Witness ==
    /\ last.op = "add"
    /\ last.params.type = "DELAYED"
    /\ Len(scheduledJobQueue) = 2
    /\ \E i \in JobsWithId(scheduledJobQueue, last.params.id) :
            scheduledJobQueue[i].opts.delay = last.params.delay

\* C3 as claimed: after add of a REPEATING job the side store holds a mapping
\* for id if and only if the broker returned a repeat key, and then the mapping
\* is that key.
C3_MappingIffHandle ==
    (last.op = "add" /\ last.params.type = "REPEATING") =>
        LET handle  == last.calls[1].reply
            mapping == store[repeatingJobKey(last.params.id)]
        IN  /\ last.error = {}
            /\ (mapping # Nil) <=> (handle # Nil)
            /\ handle # Nil => mapping = handle

\* C3 amended: a step that is add of a REPEATING job writes the mapping of id
\* if and only if the broker returned a repeat key, and the value written is
\* that key; when no key is returned add returns normally and leaves the side
\* store as it was, with whatever mapping an earlier add wrote for the id.
C3_MappingWrittenIffHandle ==
    [][(last'.op = "add" /\ last'.params.type = "REPEATING") =>
        LET id     == last'.params.id
            handle == last'.calls[1].reply
        IN  /\ last'.error = {}
            /\ last'.calls[1].cmd = "add"
            /\ last'.calls[1].queue = SCHEDULED_JOB_QUEUE
            /\ IF handle # Nil
               THEN /\ handle \in {r.key : r \in SchedulesOf(id, repeatable')}
                    /\ store' = [store EXCEPT !["activepieces:repeatJobKey:" \o id] = handle]
                    /\ Len(last'.calls) = 2
                    /\ last'.calls[2] = [cmd |-> "set",
                                         key |-> "activepieces:repeatJobKey:" \o id,
                                         value |-> handle]
               ELSE /\ store' = store
                    /\ Len(last'.calls) = 1
    ]_vars

\* add of a REPEATING job returned without a repeat key while the side store
\* holds the mapping of an earlier add of the same id
C3_Witness ==
    /\ last.op = "add"
    /\ last.params.type = "REPEATING"
    /\ last.calls[1].reply = Nil
    /\ store[repeatingJobKey(last.params.id)] # Nil

\* ------------------------------------------------------------------------
\* Properties of removeRepeatingJob
\* ------------------------------------------------------------------------
\* C4: removeRepeatingJob(X) directly after add(REPEATING, X) leaves no
\* schedule of X in the repeatable set and no mapping of X in the side store;
\* a second removeRepeatingJob(X) directly after it throws nothing and changes
\* neither queue, nor the repeatable set, nor the side store.
C4_RemovalSymmetry ==
    [][/\ (last'.op = "removeRepeatingJob" /\ last'.follows) =>
            /\ SchedulesOf(last'.params.id, repeatable') = {}
            /\ store'[repeatingJobKey(last'.params.id)] = Nil
       /\ ( /\ last.op = "removeRepeatingJob"
            /\ last.follows
            /\ last'.op = "removeRepeatingJob"
            /\ last'.params.id = last.params.id
            /\ ~last'.follows ) =>
            /\ last'.error = {}
            /\ UNCHANGED <<origin, oneTimeJobQueue, scheduledJobQueue, repeatable, store>>
    ]_vars

\* C5: a step that is removeRepeatingJob(id) from a state with no side mapping
\* of id and no scheduled job whose payload names id reports the anomaly to the
\* exception handler, throws nothing and leaves both queues, the repeatable set
\* and the side store unchanged.
C5_KeyNotFoundIsNoFailure ==
    [][( /\ last'.op = "removeRepeatingJob"
         /\ last' # last
         /\ store[repeatingJobKey(last'.params.id)] = Nil
         /\ \A i \in 1..Len(scheduledJobQueue) :
                scheduledJobQueue[i].data.flowVersionId # last'.params.id ) =>
        /\ last'.reported # {}
        /\ last'.error = {}
        /\ CallsOf(last', "removeRepeatableByKey") = {}
        /\ CallsOf(last', "del") = {}
        /\ UNCHANGED <<origin, oneTimeJobQueue, scheduledJobQueue, repeatable, store>>
    ]_vars

\* removeRepeatingJob found no key while other jobs and mappings exist
C5_Witness ==
    /\ last.op = "removeRepeatingJob"
    /\ last.reported # {}
    /\ last.error = {}
    /\ scheduledJobQueue # <<>>
    /\ repeatable # {}
    /\ \E k \in StoreKeys : store[k] # Nil

\* C6: a step that is removeRepeatingJob(id) throws JOB_REMOVAL_FAILURE with
\* jobId = id exactly when it found a key (the side mapping, or else the key of
\* the first scheduled job whose payload names id) and that key is not in the
\* broker's repeatable set; it throws nothing else, and add throws nothing.
C6_RemovalFailureExactly ==
    [][(last' # last) =>
        /\ last'.op = "add" => last'.error = {}
        /\ last'.op = "removeRepeatingJob" =>
            LET id      == last'.params.id
                mapping == store[repeatingJobKey(id)]
                named   == {i \in 1..Len(scheduledJobQueue) :
                                scheduledJobQueue[i].data.flowVersionId = id}
                first   == CHOOSE i \in named : \A j \in named : i <= j
                foundKey == IF mapping # Nil THEN mapping
                            ELSE IF named = {} THEN Nil
                            ELSE IF Has(scheduledJobQueue[first], "repeatJobKey")
                                 THEN scheduledJobQueue[first].repeatJobKey
                                 ELSE Nil
                rejected == foundKey # Nil /\ foundKey \notin {r.key : r \in repeatable}
            IN  /\ rejected => last'.error = {[code |-> "JOB_REMOVAL_FAILURE",
                                               params |-> [jobId |-> id]]}
                /\ ~rejected => last'.error = {}
    ]_vars

\* removeRepeatingJob threw JOB_REMOVAL_FAILURE
C6_Witness ==
    /\ last.op = "removeRepeatingJob"
    /\ last.error = {[code |-> "JOB_REMOVAL_FAILURE", params |-> [jobId |-> last.params.id]]}

C8_TwoTierLookup ==
    [][(last'.op = "removeRepeatingJob" /\ last' # last) =>
        LET mapping == store["activepieces:repeatJobKey:" \o last'.params.id]
        IN  /\ last'.calls[1] = [cmd |-> "get",
                                 key |-> "activepieces:repeatJobKey:" \o last'.params.id,
                                 reply |-> mapping]
            /\ (mapping # Nil) <=> (CallsOf(last', "getJobs") = {})
            /\ mapping # Nil =>
                   \E i \in CallsOf(last', "removeRepeatableByKey") :
                        last'.calls[i].key = mapping
    ]_vars

\* removeRepeatingJob used the mapped key without listing the queue, while the
\* first scheduled job whose payload names the id carries another key
C8_Witness ==
    /\ last.op = "removeRepeatingJob"
    /\ CallsOf(last, "getJobs") = {}
    /\ \E i \in CallsOf(last, "removeRepeatableByKey") :
            /\ ScanForKey(scheduledJobQueue, last.params.id) # Nil
            /\ ScanForKey(scheduledJobQueue, last.params.id) # last.calls[i].key

\* C9: every schedule in the repeatable set has its key as the side mapping of
\* its id, and no id has more than one schedule.
C9_OneMappingPerSchedule ==
    /\ \A r \in repeatable : store[repeatingJobKey(r.name)] = r.key
    /\ \A id \in Ids : Cardinality(SchedulesOf(id, repeatable)) <= 1

\* ------------------------------------------------------------------------
\* Properties of the migration pass
\* ------------------------------------------------------------------------
\* the jobs a pass listed whose payload was version 1
ListedV1(p) ==
    {job \in {mig[p].scheduledJobs[i] : i \in 1..Len(mig[p].scheduledJobs)} :
        /\ Has(job, "data")
        /\ \/ ~Has(job.data, "schemaVersion")
           \/ job.data.schemaVersion = 1}

\* the payload the scheduled queue holds now for the job
PersistedData(job) ==
    (CHOOSE j \in {scheduledJobQueue[i] : i \in 1..Len(scheduledJobQueue)} :
        j.id = job.id).data

\* the v2 to v3 backfill can be done for the job: its repeat options carry the
\* pattern and the timezone, and a flow has its flow version published
CanBackfill(job) ==
    /\ IsRepeatable(job)
    /\ \E f \in DOMAIN flows : flows[f].publishedVersionId = job.data.flowVersion.id

\* C10 as stated: when a pass has ended, every job that it listed with a
\* version 1 payload is persisted at version 4 with a jobType.
C10_MigrationMonotonicity ==
    \A p \in Procs :
        mig[p].pc = "done" =>
            \A job \in ListedV1(p) :
                /\ PersistedData(job).schemaVersion = 4
                /\ Has(PersistedData(job), "jobType")
                /\ PersistedData(job).jobType \in {"EXECUTE_TRIGGER", "DELAYED_FLOW"}

\* C10 amended: when a pass has ended, a job that it listed with a version 1
\* payload is persisted at version 4, with jobType EXECUTE_TRIGGER (the step to
\* version 2 gave it executionType BEGIN) and no executionType, if the backfill
\* of its flow's schedule could be done; otherwise it is persisted at version 2
\* with executionType BEGIN and no jobType.
C10_V1EndsAtFourIffBackfilled ==
    \A p \in Procs :
        mig[p].pc = "done" =>
            \A job \in ListedV1(p) :
                LET data == PersistedData(job)
                IN  IF CanBackfill(job)
                    THEN /\ data.schemaVersion = 4
                         /\ Has(data, "jobType") /\ data.jobType = "EXECUTE_TRIGGER"
                         /\ ~Has(data, "executionType")
                         /\ data.flowVersionId = job.data.flowVersion.id
                    ELSE /\ data.schemaVersion = 2
                         /\ data.executionType = "BEGIN"
                         /\ ~Has(data, "jobType")
                         /\ data.flowVersionId = job.data.flowVersion.id

\* a pass has ended that brought one version 1 job to version 4 and left
\* another, whose flow has no published version, at version 2
C10_Witness ==
    \E p \in Procs :
        /\ mig[p].pc = "done"
        /\ \E job \in ListedV1(p) :
                /\ PersistedData(job).schemaVersion = 4
                /\ PersistedData(job).jobType = "EXECUTE_TRIGGER"
        /\ \E job \in ListedV1(p) :
                /\ IsRepeatable(job)
                /\ PersistedData(job).schemaVersion = 2

\* the jobs of the scheduled queue
ScheduledJobs == {scheduledJobQueue[i] : i \in 1..Len(scheduledJobQueue)}

\* C11 as stated: once a process is in its second init() call, every job with
\* a payload is at the latest version, no job is counted as migrated and no
\* payload or flow record changes.
C11_InitIdempotent ==
    [][\A p \in Procs :
            mig[p].passes >= 2 =>
                /\ \A job \in ScheduledJobs :
                        Has(job, "data") =>
                            job.data.schemaVersion = LATEST_JOB_DATA_SCHEMA_VERSION
                /\ mig'[p].migratedJobs = 0
                /\ scheduledJobQueue' = scheduledJobQueue
                /\ flows' = flows]_vars

\* C11 amended: once a process is in its second init() call (the first having
\* returned), no step counts a job as migrated and no step changes a job
\* payload or a flow record; the pass lists again exactly the jobs with a
\* payload that the first pass left below the latest version.
C11_SecondPassChangesNothing ==
    [][\A p \in Procs :
            mig[p].passes >= 2 =>
                /\ mig'[p].migratedJobs = 0
                /\ scheduledJobQueue' = scheduledJobQueue
                /\ flows' = flows
                /\ mig[p].pc = "getJobs" =>
                        mig'[p].jobsToMigrate =
                            SelectSeq(scheduledJobQueue,
                                      LAMBDA job : /\ Has(job, "data")
                                                   /\ job.data.schemaVersion #
                                                        LATEST_JOB_DATA_SCHEMA_VERSION)]_vars

\* a second init() call has returned on a queue where the first pass brought a
\* job to version 4 and had to leave another at version 2
C11_Witness ==
    \E p \in Procs :
        /\ mig[p].passes = 2
        /\ mig[p].pc = "done"
        /\ Len(mig[p].scheduledJobs) = 2
        /\ \E job \in ScheduledJobs :
                /\ Has(job, "data") /\ job.data.schemaVersion = 4
                /\ Has(job.data, "environment")
        /\ \E job \in ScheduledJobs :
                Has(job, "data") /\ job.data.schemaVersion = 2

\* the version a payload is at: a missing schemaVersion is version 1
VersionOf(data) == IF Has(data, "schemaVersion") THEN data.schemaVersion ELSE 1

\* the flow of the job's flow version carries the job's cron pattern and timezone
Backfilled(job, flowRecords) ==
    \E f \in DOMAIN flowRecords :
        /\ flowRecords[f].publishedVersionId = job.data.flowVersionId
        /\ Has(flowRecords[f], "schedule")
        /\ flowRecords[f].schedule =
                [type |-> "CRON_EXPRESSION", timezone |-> job.opts.repeat.tz,
                 cronExpression |-> job.opts.repeat.pattern]

\* C12: in every step the persisted version of every job stays or advances by
\* one; a job comes to be persisted at version 3 only when its flow's schedule
\* has been backfilled, and at version 4 only from version 3.
C12_VersionLineage ==
    [][\A i \in 1..Len(scheduledJobQueue) :
            Has(scheduledJobQueue[i], "data") =>
                LET old == VersionOf(scheduledJobQueue[i].data)
                    job == scheduledJobQueue'[i]
                    new == VersionOf(job.data)
                IN  /\ job.id = scheduledJobQueue[i].id
                    /\ new \in {old, old + 1}
                    /\ new = old => job.data = scheduledJobQueue[i].data
                    /\ (new = 3 /\ old = 2) => IsRepeatable(job) /\ Backfilled(job, flows)
                    /\ new = 4 => old \in {3, 4}]_vars

\* a job listed without a schemaVersion is now persisted at version 3, after
\* having been persisted at version 2, and is about to take the last step
C12_Witness ==
    \E p \in Procs :
        /\ mig[p].pc = "step3"
        /\ \E job \in ListedV1(p) :
                /\ ~Has(job.data, "schemaVersion")
                /\ job.id = CurrentJob(p).id
                /\ PersistedData(job).schemaVersion = 3
                /\ Backfilled(CurrentJob(p), flows)

\* the payload the scheduled queue holds after the step for the job
PersistedDataNext(job) ==
    (CHOOSE j \in {scheduledJobQueue'[i] : i \in 1..Len(scheduledJobQueue')} :
        j.id = job.id).data

\* a flow has the job's flow version published
FlowExists(job) ==
    \E f \in DOMAIN flows : flows[f].publishedVersionId = job.data.flowVersionId

\* C13: a flow record changes only in the v2 to v3 step of a version 2 job
\* whose repeat options carry pattern and timezone, the record is the one of
\* the flow that has the job's flow version published, and it gets exactly the
\* job's pattern and timezone as its schedule; when the step has ended for a
\* job that entered it at version 2, the job is persisted at version 3 if its
\* options carry both and such a flow exists and is backfilled, and is still
\* at version 2 otherwise.
C13_BackfillStep ==
    [][\A p \in Procs :
        /\ (flows' # flows /\ mig'[p] # mig[p]) =>
            /\ mig[p].pc = "updateFlow"
            /\ mig[p].modifiedJobData.schemaVersion = 2
            /\ IsRepeatable(CurrentJob(p))
            /\ \E f \in DOMAIN flows :
                    /\ flows[f].publishedVersionId = CurrentJob(p).data.flowVersionId
                    /\ flows' = [flows EXCEPT ![f] =
                                    With(@, "schedule",
                                         [type |-> "CRON_EXPRESSION",
                                          timezone |-> CurrentJob(p).opts.repeat.tz,
                                          cronExpression |-> CurrentJob(p).opts.repeat.pattern])]
        /\ flows' # flows => \E q \in Procs : mig'[q] # mig[q]
        /\ (mig[p].pc = "step2" /\ mig[p].modifiedJobData.schemaVersion = 2
                /\ ~IsRepeatable(CurrentJob(p))) =>
                    /\ mig'[p].pc = "step3"
                    /\ mig'[p].modifiedJobData = mig[p].modifiedJobData
        /\ (/\ mig'[p].pc = "step3"
            /\ \/ mig[p].pc \in {"findFlow", "write3"}
               \/ mig[p].pc = "step2" /\ mig[p].modifiedJobData.schemaVersion = 2) =>
                LET job == CurrentJob(p)
                    data == PersistedDataNext(job)
                IN  IF IsRepeatable(job) /\ FlowExists(job)
                    THEN data.schemaVersion = 3 /\ Backfilled(job, flows')
                    ELSE /\ data = PersistedData(job)
                         /\ data.schemaVersion = 2
                         /\ flows' = flows
                         /\ IsRepeatable(job) => ~Backfilled(job, flows')]_vars

\* the step has ended with the backfill and version 3 for one job, after it
\* had ended for another job, whose options lack pattern or timezone, with
\* that job still at version 2
C13_Witness ==
    \E p \in Procs :
        /\ mig[p].pc = "step3"
        /\ Len(mig[p].jobsToMigrate) = 1
        /\ PersistedData(CurrentJob(p)).schemaVersion = 3
        /\ Backfilled(CurrentJob(p), flows)
        /\ \E job \in ScheduledJobs :
                /\ job.id # CurrentJob(p).id
                /\ Has(job, "data") /\ job.data.schemaVersion = 2
                /\ Has(job.opts, "repeat") /\ ~IsRepeatable(job)

\* C14: the v3 to v4 step is taken by every job whose payload is at version 3,
\* and its write persists the job at version 4 without executionType, with
\* jobType EXECUTE_TRIGGER if the version 3 payload had executionType BEGIN and
\* DELAYED_FLOW if it had RESUME, the other properties kept.
C14_JobTypeStep ==
    [][\A p \in Procs :
        /\ (mig[p].pc = "step3" /\ mig[p].modifiedJobData.schemaVersion = 3) =>
                mig'[p].pc = "write4"
        /\ mig[p].pc = "write4" =>
                LET old == PersistedData(CurrentJob(p))
                    new == PersistedDataNext(CurrentJob(p))
                IN  /\ old.schemaVersion = 3
                    /\ new.schemaVersion = 4
                    /\ ~Has(new, "executionType")
                    /\ old.executionType = "BEGIN" => new.jobType = "EXECUTE_TRIGGER"
                    /\ old.executionType = "RESUME" => new.jobType = "DELAYED_FLOW"
                    /\ DOMAIN new = (DOMAIN old \ {"executionType"}) \cup {"jobType"}
                    /\ \A f \in DOMAIN old \ {"executionType", "schemaVersion"} :
                            new[f] = old[f]]_vars

\* a pass has ended that brought a delayed job, stored at version 3 with
\* executionType RESUME, to version 4 with jobType DELAYED_FLOW
C14_Witness ==
    \E p \in Procs :
        /\ mig[p].pc = "done"
        /\ \E i \in 1..Len(mig[p].scheduledJobs) :
                LET job == mig[p].scheduledJobs[i]
                IN  /\ Has(job, "data") /\ VersionOf(job.data) = 3
                    /\ job.data.executionType = "RESUME"
                    /\ PersistedData(job).schemaVersion = 4
                    /\ PersistedData(job).jobType = "DELAYED_FLOW"

\* C15: the write of the v1 to v2 step persists, for a job whose payload had
\* schemaVersion missing or 1, a payload of exactly the properties
\* schemaVersion, flowVersionId, flowId, projectId, environment, executionType
\* and triggerType: version 2, flowVersionId and flowId those of the embedded
\* flow version, projectId and triggerType as they were.
C15_NormalizedShape ==
    [][\A p \in Procs :
        /\ (mig[p].pc = "step1" /\ VersionOf(mig[p].modifiedJobData) = 1) =>
                mig'[p].pc = "write2"
        /\ mig[p].pc = "write2" =>
                LET old == PersistedData(CurrentJob(p))
                    new == PersistedDataNext(CurrentJob(p))
                IN  /\ VersionOf(old) = 1
                    /\ DOMAIN new = {"schemaVersion", "flowVersionId", "flowId", "projectId",
                                     "environment", "executionType", "triggerType"}
                    /\ new.schemaVersion = 2
                    /\ new.flowVersionId = old.flowVersion.id
                    /\ new.flowId = old.flowVersion.flowId
                    /\ new.projectId = old.projectId
                    /\ new.triggerType = old.triggerType]_vars

\* a job listed with schemaVersion 1 and an embedded flow version is persisted
\* in the version 2 shape and the pass is at its v2 to v3 step
C15_Witness ==
    \E p \in Procs :
        /\ mig[p].pc = "step2"
        /\ \E job \in ListedV1(p) :
                /\ Has(job.data, "schemaVersion")
                /\ job.id = CurrentJob(p).id
                /\ PersistedData(job).schemaVersion = 2
                /\ ~Has(PersistedData(job), "flowVersion")
                /\ PersistedData(job).flowVersionId = job.data.flowVersion.id

\* ------------------------------------------------------------------------
\* Properties of the pass when awaited calls reject
\* ------------------------------------------------------------------------
\* C17: a pass that has the lock comes to the end of init() with the lock
\* released, by one release; no pass releases more than once, and an init()
\* that got the lock has ended only after its release.
C17_LockReleasedOnce ==
    /\ [](\A p \in Procs :
            /\ mig[p].released <= 1
            /\ (mig[p].passes >= 1 /\ mig[p].pc \in {"done", "failed"}
                    /\ mig[p].error # "lock") => mig[p].released = 1)
    /\ \A p \in Procs :
            (mig[p].pc = "getJobs" /\ lock = p)
                ~> (mig[p].pc \in {"done", "failed"} /\ mig[p].released = 1 /\ lock = Nil)

\* init() has rejected after a call of the pass rejected part-way, with a job
\* still to migrate, and the lock is free after one release
C17_Witness ==
    \E p \in Procs :
        /\ mig[p].pc = "failed"
        /\ mig[p].error = "error"
        /\ mig[p].jobsToMigrate # <<>>
        /\ mig[p].migratedJobs >= 1
        /\ mig[p].released = 1
        /\ lock = Nil

\* C18: when the acquisition of the lock fails, init() completes successfully
\* and neither a job payload nor a flow record is modified.
C18_LockFailureNotFatal ==
    [][\A p \in Procs :
            (mig[p].pc = "acquireLock" /\ mig'[p].pc # "acquireLock"
                /\ mig'[p].pc # "getJobs") =>
                    /\ mig'[p].pc = "done"
                    /\ scheduledJobQueue' = scheduledJobQueue
                    /\ flows' = flows]_vars

\* C19: when a call made for one job rejects, the job stays as it is persisted,
\* the loop goes on to the next eligible job, and init() does not reject
\* because of it.
C19_StepFailureContained ==
    [][\A p \in Procs :
            /\ (mig[p].pc \in AwaitedSteps \ {"getJobs"} /\ mig'[p].error = "error") =>
                    /\ scheduledJobQueue' = scheduledJobQueue
                    /\ mig'[p].pc = "next"
                    /\ mig'[p].jobsToMigrate = Tail(mig[p].jobsToMigrate)
            /\ (mig'[p].pc = "failed" /\ mig[p].pc # "failed") => mig'[p].error = "lock"]_vars

\* ------------------------------------------------------------------------
\* Properties of concurrent passes
\* ------------------------------------------------------------------------
\* process p is between the acquisition of the lock and its release
InPass(p) ==
    mig[p].pc \in {"getJobs", "next", "step1", "write2", "step2", "findFlow",
                   "updateFlow", "write3", "step3", "write4", "release"}

\* C16: no two processes are between acquisition and release of the migration
\* lock at the same time, and so no two are about to write a job's payload at
\* the same time.
C16_MutualExclusion ==
    \A p, q \in Procs : (InPass(p) /\ InPass(q)) => p = q

\* ------------------------------------------------------------------------
\* Properties of interrupted passes
\* ------------------------------------------------------------------------
\* what the steps of one uninterrupted pass make of a job and the flow records
JobResult(job, flowRecords) ==
    IF ~jobDataSchemaVersionIsNotLatest(job)
    THEN [job |-> job, flows |-> flowRecords]
    ELSE LET v2 == IF VersionOf(job.data) = 1 THEN MigrateV1toV2(job.data) ELSE job.data
             found == {f \in DOMAIN flowRecords :
                            flowRecords[f].publishedVersionId = v2.flowVersionId}
             updated == v2.schemaVersion = 2 /\ IsRepeatable(job) /\ found # {}
             v3 == IF updated THEN With(v2, "schemaVersion", 3) ELSE v2
             v4 == IF v3.schemaVersion = 3 THEN MigrateV3toV4(v3) ELSE v3
         IN  [job |-> With(job, "data", v4),
              flows |-> IF updated
                        THEN [f \in DOMAIN flowRecords |->
                                IF f \in found
                                THEN With(flowRecords[f], "schedule",
                                          CronSchedule(job.opts.repeat))
                                ELSE flowRecords[f]]
                        ELSE flowRecords]

\* the queue and the flow records after one uninterrupted pass over the first
\* n jobs
RECURSIVE PassResult(_, _, _)
PassResult(queue, flowRecords, n) ==
    IF n = 0
    THEN [queue |-> queue, flows |-> flowRecords]
    ELSE LET before == PassResult(queue, flowRecords, n - 1)
             result == JobResult(before.queue[n], before.flows)
         IN  [queue |-> [before.queue EXCEPT ![n] = result.job], flows |-> result.flows]

\* C20: when an init() has returned, after any number of passes that were
\* ended between two of their awaited operations, the scheduled queue and the
\* flow records are those of one uninterrupted pass from the original state.
C20_CrashSafety ==
    \A p \in Procs :
        (mig[p].pc = "done" /\ mig[p].passes >= 1) =>
            LET result == PassResult(origin.queue, origin.flows, Len(origin.queue))
            IN  /\ scheduledJobQueue = result.queue
                /\ flows = result.flows

\* the second start of a process has returned from init(); the flow had its
\* schedule written and the job, stored at version 1, was still persisted at
\* version 2 when the first start ended: this pass did the steps from 2 to 4
C20_Witness ==
    \E p \in Procs :
        /\ mig[p].pc = "done"
        /\ mig[p].passes = 2
        /\ mig[p].migratedJobs = 2
        /\ Len(origin.queue) = 1
        /\ VersionOf(origin.queue[1].data) = 1
        /\ VersionOf(mig[p].scheduledJobs[1].data) = 2
        /\ \E f \in DOMAIN flows :
                Has(flows[f], "schedule") /\ ~Has(origin.flows[f], "schedule")
        /\ scheduledJobQueue[1].data.schemaVersion = 4

(***************************************************************************)
(* The count of a pass (migrateScheduledJobs, lines 241-289)               *)
(***************************************************************************)

\* the listed jobs whose persisted version is above the one they were listed at
AdvancedJobs(p) ==
    {i \in 1..Len(mig[p].scheduledJobs) :
        /\ Has(mig[p].scheduledJobs[i], "data")
        /\ VersionOf(PersistedData(mig[p].scheduledJobs[i]))
              > VersionOf(mig[p].scheduledJobs[i].data)}

\* C21: the count reported when a pass ends ("Migrated n jobs") is the number
\* of distinct jobs whose version advanced in that pass, whatever versions the
\* queue held when the pass started.
C21_ReportedCount ==
    \A p \in Procs :
        (mig[p].pc = "done" /\ mig[p].passes >= 1)
            => mig[p].migratedJobs = Cardinality(AdvancedJobs(p))

(***************************************************************************)
(* What the backend holds after add (lines 140-181)                        *)
(***************************************************************************)

\* the jobs of a queue that were enqueued under the name id
JobsNamed(queue, id) == {i \in 1..Len(queue) : queue[i].name = id}

\* C22: when add has returned, the backend holds exactly one job of the given
\* id, and it carries the scheduling fields of its type: a priority for
\* ONE_TIME, a delay for DELAYED, one cron schedule (pattern and timezone) for
\* REPEATING; also when the id was already present before the call.
C22_ExactlyOneJob ==
    (last.op = "add" /\ last.error = {}) =>
        LET id == last.params.id
            queue == IF last.params.type = "ONE_TIME"
                     THEN oneTimeJobQueue ELSE scheduledJobQueue
        IN  /\ Cardinality(JobsNamed(queue, id)) = 1
            /\ \A i \in JobsNamed(queue, id) :
                  CASE last.params.type = "ONE_TIME" ->
                          Has(queue[i].opts, "priority")
                    [] last.params.type = "DELAYED" ->
                          Has(queue[i].opts, "delay")
                    [] OTHER ->
                          /\ Has(queue[i].opts, "repeat")
                          /\ Has(queue[i].opts.repeat, "pattern")
                          /\ Has(queue[i].opts.repeat, "tz")
            /\ last.params.type = "REPEATING"
                  => Cardinality(SchedulesOf(id, repeatable)) = 1

(***************************************************************************)
(* Workers: priority, delay and the retry budget                           *)
(***************************************************************************)

IsHigh(k) == work.meta[k].asked.priority = "high"

\* a worker takes job k in this step
Dequeued(k) ==
    /\ k \in DOMAIN work.meta /\ k \in DOMAIN work'.meta
    /\ work.meta[k].state = "waiting"
    /\ work'.meta[k].state = "active"

\* C23: on the immediate queue a job added with priority high is never left
\* waiting while a worker takes a job added with another priority, whatever
\* the order of the two adds, and of two waiting jobs of the same priority
\* the one that was added first is taken first.
C23_PriorityOrder ==
    [][\A k, j \in DOMAIN work.meta :
          (/\ Dequeued(k) /\ j # k
           /\ work.meta[k].queue = ONE_TIME_JOB_QUEUE
           /\ work.meta[j].queue = ONE_TIME_JOB_QUEUE
           /\ work.meta[j].state = "waiting")
          => /\ ~(IsHigh(j) /\ ~IsHigh(k))
             /\ (IsHigh(j) <=> IsHigh(k)) => Position(k) < Position(j)]_vars

\* a job added with priority high after a job of normal priority is taken
\* while the normal one still waits
C23_Witness ==
    \E k, j \in DOMAIN work.meta :
        /\ work.meta[k].state = "active" /\ IsHigh(k)
        /\ work.meta[j].state = "waiting" /\ ~IsHigh(j)
        /\ work.meta[k].queue = ONE_TIME_JOB_QUEUE
        /\ work.meta[j].queue = ONE_TIME_JOB_QUEUE
        /\ Position(j) < Position(k)

\* C24: a DELAYED job added with delay d is eligible exactly when d
\* milliseconds have passed since its add, a worker never took it earlier,
\* and it is handed out once: a further delivery needs a failed attempt, and a
\* completed job is gone.
C24_DelayRespected ==
    \A k \in DOMAIN work.meta :
        work.meta[k].asked.type = "DELAYED"
        => /\ Eligible(k) <=>
                 /\ work.meta[k].state = "waiting"
                 /\ work.now >= work.meta[k].timestamp + work.meta[k].asked.delay
           /\ work.meta[k].deliveries > 0
                 => work.meta[k].processedOn
                        >= work.meta[k].timestamp + work.meta[k].asked.delay
           /\ work.meta[k].deliveries <= work.meta[k].attemptsMade + 1
           /\ work.meta[k].state # "completed"

\* a DELAYED job is with a worker, taken when its delay had elapsed
C24_Witness ==
    \E k \in DOMAIN work.meta :
        /\ work.meta[k].asked.type = "DELAYED"
        /\ work.meta[k].state = "active"
        /\ work.meta[k].processedOn >= work.meta[k].asked.delay

\* the state of record k after this step ("gone": no longer stored)
StateNext(k) == IF k \in DOMAIN work'.meta THEN work'.meta[k].state ELSE "gone"

\* C25: a job goes from waiting to active and from there to completed or
\* failed; a failed attempt is followed by another one until five attempts
\* were made, then the job is failed for good and never taken again; a
\* completed job leaves storage at once; no job is attempted more than five
\* times.
C25_RetryBudget ==
    /\ [](\A k \in DOMAIN work.meta :
            /\ work.meta[k].deliveries <= 5
            /\ work.meta[k].attemptsMade <= 5
            /\ work.meta[k].state = "failed" <=> work.meta[k].attemptsMade = 5
            /\ work.meta[k].state # "completed"
            /\ HasJob(Queue(work.meta[k].queue), work.meta[k].id))
    /\ [][\A k \in DOMAIN work.meta :
            StateNext(k) # work.meta[k].state
            => <<work.meta[k].state, StateNext(k)>> \in
                  {<<"waiting", "active">>, <<"active", "gone">>,
                   <<"active", "backoff">>, <<"active", "failed">>,
                   <<"backoff", "waiting">>}]_vars

\* a job has failed for good after its fifth attempt, another was completed
\* after a failed attempt
C25_Witness ==
    /\ \E k \in DOMAIN work.meta :
          work.meta[k].state = "failed" /\ work.meta[k].deliveries = 5
    /\ \E k \in DOMAIN work.meta :
          work.meta[k].state = "active" /\ work.meta[k].attemptsMade = 4

(***************************************************************************)
(* Failures of add: a rejected enqueue, queues that do not exist yet       *)
(***************************************************************************)

\* the call that has just ended sent an enqueue the broker rejected
EnqueueRejected ==
    /\ last' # last
    /\ last'.op = "add"
    /\ \E i \in CallsOf(last', "add") :
          /\ Has(last'.calls[i], "reply")
          /\ last'.calls[i].reply = BrokerError

\* C26: when the broker rejects the enqueue of add, for a job of any type,
\* add fails with the broker's error (it is not caught and reported instead),
\* and no side mapping is written: the store and the queues are as before.
C26_BrokerFailurePropagates ==
    [][EnqueueRejected
          => /\ last'.error = {BrokerError}
             /\ last'.reported = {}
             /\ CallsOf(last', "set") = {}
             /\ store' = store
             /\ repeatable' = repeatable
             /\ oneTimeJobQueue' = oneTimeJobQueue
             /\ scheduledJobQueue' = scheduledJobQueue]_vars

\* add of a REPEATING job whose id has no mapping was rejected by the broker
C26_Witness ==
    /\ last.op = "add"
    /\ last.error = {BrokerError}
    /\ last.params.type = "REPEATING"
    /\ store[repeatingJobKey(last.params.id)] = Nil

\* C27: a call of add or removeRepeatingJob made by a process before its
\* init() has created the two queues fails, enqueues nothing and neither
\* writes nor deletes a side mapping.
C27_InitPrecedesCalls ==
    [][\A p \in Single :
          (~QueuesCreated(p) /\ last' # last)
          => /\ last'.op \in {"add", "removeRepeatingJob"}
             /\ last'.error # {}
             /\ last'.calls = <<>>
             /\ store' = store
             /\ repeatable' = repeatable
             /\ oneTimeJobQueue' = oneTimeJobQueue
             /\ scheduledJobQueue' = scheduledJobQueue]_vars

\* an add made before init() failed and enqueued nothing, and init() has
\* then created the queues and returned
C27_Witness ==
    \E p \in Single :
        /\ mig[p].pc = "done" /\ mig[p].passes = 1
        /\ last.op = "add"
        /\ last.error = {TypeError}
        /\ oneTimeJobQueue = <<>>
        /\ Len(scheduledJobQueue) = Len(origin.queue)

(***************************************************************************)
(* The facade and the worker hook                                          *)
(***************************************************************************)

\* C28: the backend is chosen once, when the process loads the facade: the
\* memory backend exactly when the queue mode configured at that time is
\* MEMORY, the durable backend for every other or missing value; the choice
\* never changes afterwards, and every call goes to the chosen backend.
C28_OneBackend ==
    /\ [](facade.backend # Nil
            => /\ facade.backend \in {"inMemoryQueueManager", "redisQueueManager"}
               /\ facade.backend = "inMemoryQueueManager" <=> facade.loaded = "MEMORY"
               /\ facade.call.op # "none" => facade.call.backend = facade.backend)
    /\ [][facade.backend # Nil => facade'.backend = facade.backend]_vars

\* a process started without a queue mode runs the durable backend, and a
\* call went to it after the configuration had changed to MEMORY
C28_Witness ==
    /\ facade.loaded = Nil
    /\ facade.backend = "redisQueueManager"
    /\ facade.queueMode = "MEMORY"
    /\ facade.call = [op |-> "add", backend |-> "redisQueueManager"]

\* C29: preExecute never fails its caller; on the editions cloud and ee a
\* quota-exceeded error of the task-limit check finishes the run with status
\* QUOTA_EXCEEDED and 0 tasks, any other error of the check is given to the
\* exception handler; on another edition the check is not made.
C29_PreExecuteNeverFails ==
    hooks.last.op = "preExecute"
    => /\ hooks.last.error = {}
       /\ hooks.last.raised = "QUOTA_EXCEEDED"
             => hooks.runs[hooks.last.runId] = [status |-> "QUOTA_EXCEEDED", tasks |-> 0]
       /\ hooks.last.raised \notin {"none", "QUOTA_EXCEEDED"}
             => hooks.last.raised \in hooks.handled
       /\ hooks.last.checked <=> hooks.last.edition \in {"cloud", "ee"}

(***************************************************************************)
(* Failures of removeRepeatingJob                                          *)
(***************************************************************************)

\* removeRepeatingJob(id), called in this state, would throw JOB_REMOVAL_FAILURE
WouldFailRemoval(id) ==
    LET jobKey == findRepeatableJobKey(id).jobKey
    IN  ~isNil(jobKey) /\ jobKey \notin RepeatableKeys

\* C31: when removeRepeatingJob(id) has failed with JOB_REMOVAL_FAILURE it had
\* already sent the delete of the side mapping of id: the store holds no
\* mapping for id, and removeRepeatingJob(id) called again at once does not
\* throw JOB_REMOVAL_FAILURE.
C31_FailedRemovalDropsMapping ==
    (last.op = "removeRepeatingJob" /\ last.error # {})
    => /\ last.error = {JobRemovalFailure(last.params.id)}
       /\ CallsOf(last, "del") # {}
       /\ store[repeatingJobKey(last.params.id)] = Nil
       /\ ~WouldFailRemoval(last.params.id)

\* removeRepeatingJob has failed with JOB_REMOVAL_FAILURE on a stale mapping
C31_Witness ==
    /\ last.op = "removeRepeatingJob"
    /\ last.error = {JobRemovalFailure(last.params.id)}
    /\ \E i \in CallsOf(last, "get") : last.calls[i].reply # Nil

\* the call that has just ended asked a removal the broker rejected
RemovalWasRejected ==
    /\ last' # last
    /\ last'.op = "removeRepeatingJob"
    /\ \E i \in CallsOf(last', "removeRepeatableByKey") : Has(last'.calls[i], "error")

\* C32: when the broker raises an error on the removal of the repeat key,
\* removeRepeatingJob fails with that error, the side mapping of id and the
\* schedule are kept, and a later removeRepeatingJob(id) finds the same key.
C32_RemovalErrorKeepsMapping ==
    [][RemovalWasRejected
          => /\ last'.error = {BrokerError}
             /\ last'.reported = {}
             /\ CallsOf(last', "del") = {}
             /\ store' = store
             /\ repeatable' = repeatable
             /\ scheduledJobQueue' = scheduledJobQueue
             /\ \A i \in CallsOf(last', "removeRepeatableByKey") :
                   LET jobKey == store'[repeatingJobKey(last'.params.id)]
                   IN  IF isNil(jobKey)
                       THEN ScanForKey(scheduledJobQueue', last'.params.id)
                                = last'.calls[i].key
                       ELSE jobKey = last'.calls[i].key]_vars

\* the removal of a mapped schedule was rejected: mapping and schedule remain
C32_Witness ==
    /\ last.op = "removeRepeatingJob"
    /\ last.error = {BrokerError}
    /\ store[repeatingJobKey(last.params.id)] \in RepeatableKeys

(***************************************************************************)
(* add(REPEATING) and removeRepeatingJob of one id at the same time        *)
(***************************************************************************)

\* C33: when an add(REPEATING) and a removeRepeatingJob of the same id ran at
\* the same time and both have returned, a side mapping of the id names a
\* schedule of the broker's repeatable set: no mapping is left that makes the
\* next removeRepeatingJob of the id throw JOB_REMOVAL_FAILURE.
C33_NoDanglingMapping ==
    (/\ inflight.add.pc = "returned"
     /\ inflight.remove.pc = "returned"
     /\ inflight.add.params.id = inflight.remove.id)
    => /\ store[repeatingJobKey(inflight.remove.id)] # Nil
            => store[repeatingJobKey(inflight.remove.id)] \in RepeatableKeys
       /\ ~WouldFailRemoval(inflight.remove.id)

(***************************************************************************)
(* What a migration pass leaves alone, and where it leaves every job       *)
(***************************************************************************)

\* C34: a step of a migration pass changes nothing but the payload of a job
\* of the scheduled queue whose schemaVersion is missing or is not 4: a job
\* at version 4 and a job without data stay as they are, and so do the
\* immediate queue, the side mappings, the jobs each queue holds, and the id,
\* delay and repeat options of every job.
C34_MigrationFrame ==
    [][/\ oneTimeJobQueue' = oneTimeJobQueue
       /\ store' = store
       /\ repeatable' = repeatable
       /\ Len(scheduledJobQueue') = Len(scheduledJobQueue)
       /\ \A i \in 1..Len(scheduledJobQueue) :
             LET old == scheduledJobQueue[i]
                 new == scheduledJobQueue'[i]
             IN  /\ new.id = old.id
                 /\ new.name = old.name
                 /\ new.opts = old.opts
                 /\ RepeatJobKeyOf(new) = RepeatJobKeyOf(old)
                 /\ ~Has(old, "data") => new = old
                 /\ (Has(old, "data") /\ Has(old.data, "schemaVersion")
                        /\ old.data.schemaVersion = LATEST_JOB_DATA_SCHEMA_VERSION)
                       => new = old]_vars

\* a pass has ended that rewrote one job and passed over a job at version 4
\* and a job without data
C34_Witness ==
    \E p \in Procs :
        /\ mig[p].pc = "done" /\ mig[p].migratedJobs > 0
        /\ \E i \in 1..Len(origin.queue) :
              \/ ~Has(origin.queue[i], "data")
              \/ VersionOf(origin.queue[i].data) = 4
        /\ scheduledJobQueue # origin.queue

\* the jobs of the scheduled queue, as they were when the process started,
\* that had a payload below version 4
StartedBelowLatest ==
    {origin.queue[i] : i \in {j \in 1..Len(origin.queue) :
        /\ Has(origin.queue[j], "data")
        /\ VersionOf(origin.queue[j].data) < 4}}

\* the repeat options of the job hold a cron pattern and a timezone
HasCronOptions(job) ==
    /\ "repeat" \in DOMAIN job.opts
    /\ {"pattern", "tz"} \subseteq DOMAIN job.opts.repeat

\* a flow publishes the flow version the payload of the job names
FlowPublished(job) ==
    LET fv == IF Has(job.data, "flowVersionId")
              THEN job.data.flowVersionId ELSE job.data.flowVersion.id
    IN  \E f \in DOMAIN flows : flows[f].publishedVersionId = fv

\* the job stays at version 2, as a pass leaves it
LeftAtTwo(data) ==
    /\ data.schemaVersion = 2
    /\ Has(data, "executionType")
    /\ ~Has(data, "jobType")

\* C35: after every pass that ran to its end, a job that started at version
\* missing, 1, 2 or 3 is at version 4, except exactly the jobs whose repeat
\* options lack the cron pattern or the timezone or whose flow is not found
\* by its published version: these are at version 2 with their executionType
\* and without jobType, after the first pass and after every later one.
C35_CompletedPass ==
    \A p \in Procs :
        (mig[p].pc = "done" /\ mig[p].passes >= 1) =>
            \A job \in StartedBelowLatest :
                IF HasCronOptions(job) /\ FlowPublished(job)
                THEN PersistedData(job).schemaVersion = 4
                ELSE LeftAtTwo(PersistedData(job))

\* C35, restated: the exception holds for the jobs that started below version
\* 3; a job that started at version 3 is at version 4 after the pass whatever
\* its repeat options and its flow are.
C35_CompletedPassFromThree ==
    \A p \in Procs :
        (mig[p].pc = "done" /\ mig[p].passes >= 1) =>
            \A job \in StartedBelowLatest :
                IF \/ VersionOf(job.data) = 3
                   \/ HasCronOptions(job) /\ FlowPublished(job)
                THEN PersistedData(job).schemaVersion = 4
                ELSE LeftAtTwo(PersistedData(job))

\* a second pass has ended: a job that started at version 3 without cron
\* options is at version 4, a job that started below 3 is still at version 2
C35_Witness ==
    \E p \in Procs :
        /\ mig[p].pc = "done" /\ mig[p].passes = 2
        /\ \E job \in StartedBelowLatest :
              /\ VersionOf(job.data) = 3 /\ ~HasCronOptions(job)
              /\ PersistedData(job).schemaVersion = 4
        /\ \E job \in StartedBelowLatest :
              /\ VersionOf(job.data) < 3
              /\ LeftAtTwo(PersistedData(job))

\* the place, in the order the scheduled queue lists its jobs, of the first
\* job that has data and whose payload names id; 0 when there is none
FirstNaming(id) ==
    LET places == {i \in 1..Len(scheduledJobQueue) :
                      /\ "data" \in DOMAIN scheduledJobQueue[i]
                      /\ "flowVersionId" \in DOMAIN scheduledJobQueue[i].data
                      /\ scheduledJobQueue[i].data.flowVersionId = id}
    IN  IF places = {} THEN 0 ELSE CHOOSE i \in places : \A j \in places : i <= j

\* C36: a step that is removeRepeatingJob(id) from a state with no side
\* mapping of id works on the repeat key of the first listed job that has data
\* and whose payload flowVersionId is id: it asks the broker to remove exactly
\* that key, and it reports 'not found' and removes nothing when there is no
\* such job or when that first job has no repeat key, whatever the names and
\* ids of the listed jobs are.
C36_ScanTakesFirstByPayload ==
    [][( /\ last'.op = "removeRepeatingJob"
         /\ last' # last
         /\ store[repeatingJobKey(last'.params.id)] = Nil ) =>
        LET first == FirstNaming(last'.params.id)
        IN  IF first = 0 \/ "repeatJobKey" \notin DOMAIN scheduledJobQueue[first]
            THEN /\ last'.reported # {}
                 /\ CallsOf(last', "removeRepeatableByKey") = {}
                 /\ UNCHANGED <<scheduledJobQueue, repeatable, store>>
            ELSE /\ last'.reported = {}
                 /\ \A c \in CallsOf(last', "removeRepeatableByKey") :
                        last'.calls[c].key = scheduledJobQueue[first].repeatJobKey
                 /\ CallsOf(last', "removeRepeatableByKey") # {}
    ]_vars

\* removeRepeatingJob(id) found nothing although the schedule of id is
\* registered and listed: a delayed job with the same flowVersionId is listed
\* before it
C36_Witness ==
    /\ last.op = "removeRepeatingJob"
    /\ last.reported # {}
    /\ store[repeatingJobKey(last.params.id)] = Nil
    /\ \E i, j \in 1..Len(scheduledJobQueue) :
          /\ i < j
          /\ i = FirstNaming(last.params.id)
          /\ "repeatJobKey" \notin DOMAIN scheduledJobQueue[i]
          /\ "repeatJobKey" \in DOMAIN scheduledJobQueue[j]
          /\ scheduledJobQueue[j].name = last.params.id
          /\ scheduledJobQueue[j].data.flowVersionId = last.params.id
          /\ scheduledJobQueue[j].repeatJobKey \in RepeatableKeys

\* the last call was an add(REPEATING) whose mapping write was rejected
SetWasRejected(record) ==
    /\ record.op = "add"
    /\ record.params.type = "REPEATING"
    /\ \E i \in 1..Len(record.calls) :
          /\ record.calls[i].cmd = "set"
          /\ "error" \in DOMAIN record.calls[i]

\* the repeat key the enqueue of the call was answered with
EnqueuedKey(record) == record.calls[1].reply

\* C37: a step that is an add(REPEATING) whose mapping write is rejected after
\* the enqueue succeeded ends with an error, with the schedule registered in
\* the broker and with no mapping written; and a removeRepeatingJob(id) that
\* follows it, the payload of the job naming id and id having no mapping,
\* removes that schedule and throws nothing.
C37_RecoveryAfterFailedMappingWrite ==
    [][ /\ (SetWasRejected(last') /\ last' # last) =>
            /\ last'.error # {}
            /\ EnqueuedKey(last') \in {r.key : r \in repeatable'}
            /\ store' = store
        /\ ( /\ SetWasRejected(last)
             /\ last.params.data.flowVersionId = last.params.id
             /\ store[repeatingJobKey(last.params.id)] = Nil
             /\ last'.op = "removeRepeatingJob"
             /\ last'.params.id = last.params.id ) =>
            /\ last'.error = {}
            /\ EnqueuedKey(last) \notin {r.key : r \in repeatable'}
    ]_vars

\* C38: distinct ids have distinct mapping keys, and a step that is add or
\* removeRepeatingJob for an id leaves the side mapping of every other id as
\* it was; an add of a ONE_TIME or DELAYED job leaves the whole side store as
\* it was.
C38_PerIdIsolation ==
    /\ [](\A x, y \in Ids \cup RunIds :
            x # y => repeatingJobKey(x) # repeatingJobKey(y))
    /\ [][(last' # last /\ last'.op \in {"add", "removeRepeatingJob"}) =>
            /\ \A y \in (Ids \cup RunIds) \ {last'.params.id} :
                   store'[repeatingJobKey(y)] = store[repeatingJobKey(y)]
            /\ (last'.op = "add" /\ last'.params.type # "REPEATING") =>
                   store' = store
       ]_vars

\* the mapping of one id was deleted by removeRepeatingJob while another id
\* keeps its mapping
C38_Witness ==
    /\ last.op = "removeRepeatingJob"
    /\ last.error = {}
    /\ CallsOf(last, "del") # {}
    /\ store[repeatingJobKey(last.params.id)] = Nil
    /\ \E y \in Ids \ {last.params.id} : store[repeatingJobKey(y)] # Nil

====
